---------------------------- MODULE Spec2Model ----------------------------
(***************************************************************************)
(* next-yate (src/index.js): the external-module protocol codec, the       *)
(* YateMessage parameter model, the connection/reconnect manager, the      *)
(* handler registry, the message router and the request layer of class     *)
(* Yate, as a state machine.                                               *)
(*                                                                         *)
(* A JavaScript string is a sequence of characters; a character is a       *)
(* one-character TLA+ string, and the control character with code c < 32   *)
(* is the token "^X" where X has code c + 64 ("^J" is the line feed); the   *)
(* grave accent (code 96) is the token "grave".                            *)
(* A JavaScript value is a record [t |-> typeof, v |-> payload]; an object *)
(* is its list of own enumerable properties in insertion order.            *)
(***************************************************************************)
EXTENDS Integers, Sequences, FiniteSets, TLC

(***************************************************************************)
(* Characters and character codes (String.charCodeAt, String.fromCharCode) *)
(***************************************************************************)
Ascii ==
  <<"^@", "^A", "^B", "^C", "^D", "^E", "^F", "^G", "^H", "^I", "^J", "^K", "^L", "^M", "^N", "^O",
    "^P", "^Q", "^R", "^S", "^T", "^U", "^V", "^W", "^X", "^Y", "^Z", "^[", "^\\", "^]", "^^", "^_",
    " ", "!", "\"", "#", "$", "%", "&", "'", "(", ")", "*", "+", ",", "-", ".", "/",
    "0", "1", "2", "3", "4", "5", "6", "7", "8", "9", ":", ";", "<", "=", ">", "?",
    "@", "A", "B", "C", "D", "E", "F", "G", "H", "I", "J", "K", "L", "M", "N", "O",
    "P", "Q", "R", "S", "T", "U", "V", "W", "X", "Y", "Z", "[", "\\", "]", "^", "_",
    "grave", "a", "b", "c", "d", "e", "f", "g", "h", "i", "j", "k", "l", "m", "n", "o",
    "p", "q", "r", "s", "t", "u", "v", "w", "x", "y", "z", "{", "|", "}", "~", "^?">>

NaN == -1

\* chr.charCodeAt(0); the empty string (charAt past the end) has code NaN
charCodeAt(chr) ==
  IF chr = "" THEN NaN
  ELSE IF \E i \in 0..127 : Ascii[i + 1] = chr
       THEN CHOOSE i \in 0..127 : Ascii[i + 1] = chr
       ELSE 65533

\* String.fromCharCode(n): ToUint16(n); codes outside ASCII are the token "U+n"
fromCharCode(n) ==
  IF n \in 0..127 THEN Ascii[n + 1] ELSE "U+" \o ToString(n % 65536)

\* str.charAt(i), i counted from 0
charAt(str, i) == IF i >= 0 /\ i < Len(str) THEN str[i + 1] ELSE ""

\* str.indexOf(chr), counted from 0, -1 when absent
indexOf(str, chr) ==
  IF \E i \in 1..Len(str) : str[i] = chr
  THEN (CHOOSE i \in 1..Len(str) : str[i] = chr /\ \A j \in 1..(i - 1) : str[j] # chr) - 1
  ELSE -1

\* str.substr(from) and str.substr(from, len)
substrFrom(str, from) == SubSeq(str, from + 1, Len(str))
substr(str, from, len) ==
  SubSeq(str, from + 1, IF from + len > Len(str) THEN Len(str) ELSE from + len)

\* str.split(sep) for a one-character separator
RECURSIVE split(_, _)
split(str, sep) ==
  LET pos == indexOf(str, sep) IN
  IF pos < 0 THEN <<str>>
  ELSE <<SubSeq(str, 1, pos)>> \o split(substrFrom(str, pos + 1), sep)

startsWith(str, pre) == Len(str) >= Len(pre) /\ SubSeq(str, 1, Len(pre)) = pre

(***************************************************************************)
(* JavaScript values                                                       *)
(***************************************************************************)
Str(s)  == [t |-> "string", v |-> s]
Bool(b) == [t |-> "boolean", v |-> b]
Obj(p)  == [t |-> "object", v |-> p]
Fun(h)  == [t |-> "function", v |-> h]
Num(n)  == [t |-> "number", v |-> n]
undefined == [t |-> "undefined", v |-> <<>>]

\* the decimal digits of a natural number
RECURSIVE digits(_)
digits(n) == IF n < 10 THEN <<fromCharCode(48 + n)>>
             ELSE digits(n \div 10) \o <<fromCharCode(48 + (n % 10))>>

isStr(x, s) == x.t = "string" /\ x.v = s
isTrue(x)   == x.t = "boolean" /\ x.v = TRUE

\* x + "" / x.toString()
toString(x) ==
  CASE x.t = "string"    -> x.v
    [] x.t = "boolean"   -> IF x.v THEN <<"t","r","u","e">> ELSE <<"f","a","l","s","e">>
    [] x.t = "number"    -> digits(x.v)
    [] x.t = "undefined" -> <<"u","n","d","e","f","i","n","e","d">>
    [] x.t = "object"    -> <<"[","o","b","j","e","c","t"," ","O","b","j","e","c","t","]">>
    [] OTHER             -> <<"f","u","n","c","t","i","o","n">>

\* truthiness of a value
truthy(x) ==
  CASE x.t = "string"    -> x.v # <<>>
    [] x.t = "boolean"   -> x.v
    [] x.t = "number"    -> x.v # 0
    [] x.t = "undefined" -> FALSE
    [] OTHER             -> TRUE

\* property lists: key in obj, obj[key], obj[key] = val, delete obj[key]
Has(o, key) == \E i \in 1..Len(o) : o[i].k = key
Get(o, key) ==
  IF Has(o, key) THEN o[CHOOSE i \in 1..Len(o) : o[i].k = key].v ELSE undefined
Put(o, key, val) ==
  IF Has(o, key)
  THEN [i \in 1..Len(o) |-> IF o[i].k = key THEN [k |-> key, v |-> val] ELSE o[i]]
  ELSE Append(o, [k |-> key, v |-> val])

\* the outcome of a call: a value, or an exception thrown
Ok(x)   == [ok |-> TRUE, v |-> x]
Throw(e) == [ok |-> FALSE, v |-> e]

(***************************************************************************)
(* Codec: _escape, _unescape, _bool2str, _str2bool (index.js 1678-1717)    *)
(***************************************************************************)
RECURSIVE escapeFrom(_, _, _)
escapeFrom(str, i, extra) ==
  IF i >= Len(str) THEN <<>>
  ELSE LET chr == charAt(str, i) IN
       (IF charCodeAt(chr) < 32 \/ chr = ":" \/ chr = extra
        THEN <<"%", fromCharCode(charCodeAt(chr) + 64)>>
        ELSE IF chr = "%" THEN <<chr, chr>> ELSE <<chr>>)
       \o escapeFrom(str, i + 1, extra)

\* _escape(str, extra) for a JavaScript value str; extra = "" when not given
_escape(x, extra) ==
  IF x.t = "undefined" THEN <<>> ELSE escapeFrom(toString(x), 0, extra)

RECURSIVE unescapeFrom(_, _)
unescapeFrom(str, i) ==
  IF i >= Len(str) THEN <<>>
  ELSE LET chr == charAt(str, i) IN
       IF chr = "%"
       THEN LET nxt == charAt(str, i + 1) IN
            <<IF nxt # "%"
              THEN fromCharCode(IF charCodeAt(nxt) = NaN THEN 0 ELSE charCodeAt(nxt) - 64)
              ELSE nxt>> \o unescapeFrom(str, i + 2)
       ELSE <<chr>> \o unescapeFrom(str, i + 1)

\* an _unescape that takes every character as it is
_unescapeVerbatim(str) == str

\* _unescape(str) for a string str
_unescape(str) == unescapeFrom(str, 0)

_bool2str(x) == IF truthy(x) THEN <<"t","r","u","e">> ELSE <<"f","a","l","s","e">>
_str2bool(x) == Bool(isStr(x, <<"t","r","u","e">>))

(***************************************************************************)
(* Parameter model: _str2obj, _obj2str, _par2str, _deepCopy                *)
(***************************************************************************)
\* the reducer of _str2obj: walks the dotted path segs down from object;
\* assigning a property on a primitive is a TypeError in strict mode
RECURSIVE str2objReduce(_, _, _)
str2objReduce(object, segs, val) ==
  LET key == Head(segs) IN
  IF Len(segs) = 1
  THEN IF Has(object, key)
       THEN IF Get(object, key).t = "object"
            THEN Ok(Put(object, key, Obj(Put(Get(object, key).v, key, val))))
            ELSE Throw("TypeError")
       ELSE Ok(Put(object, key, val))
  ELSE LET o1 == IF Has(object, key)
                 THEN IF Get(object, key).t # "object"
                      THEN Put(object, key, Obj(<<[k |-> key, v |-> Get(object, key)]>>))
                      ELSE object
                 ELSE Put(object, key, Obj(<<>>))
           sub == str2objReduce(Get(o1, key).v, Tail(segs), val)
       IN  IF sub.ok THEN Ok(Put(o1, key, Obj(sub.v))) ELSE sub

RECURSIVE str2objFrom(_, _, _)
str2objFrom(obj, i, res) ==
  IF i > Len(obj) THEN Ok(res)
  ELSE LET key == obj[i].k
           raw == obj[i].v
           val == IF isStr(raw, <<"f","a","l","s","e">>) THEN Bool(FALSE)
                  ELSE IF isStr(raw, <<"t","r","u","e">>) THEN Bool(TRUE) ELSE raw
           nxt == IF indexOf(key, ".") # 0
                  THEN str2objReduce(res, split(key, "."), val)
                  ELSE Ok(Put(res, key, val))
       IN  IF nxt.ok THEN str2objFrom(obj, i + 1, nxt.v) ELSE nxt

\* _str2obj(obj): parent.child -> parent: { child }
_str2obj(obj) == str2objFrom(obj, 1, <<>>)

\* _obj2str(obj, rootkey): the flat map of dotted keys; rootkey = <<>> when absent
RECURSIVE obj2strFrom(_, _, _, _)
RECURSIVE mergeSub(_, _, _, _)
mergeSub(res, pref, subobj, j) ==
  IF j > Len(subobj) THEN res
  ELSE mergeSub(Put(res, pref \o subobj[j].k, subobj[j].v), pref, subobj, j + 1)
obj2strFrom(obj, rootkey, i, res) ==
  LET pref == IF rootkey # <<>> THEN rootkey \o <<".">> ELSE <<>> IN
  IF i > Len(obj) THEN res
  ELSE LET key == obj[i].k
           x   == obj[i].v
       IN  IF charAt(key, 0) = "_" \/ x.t = "function" \/ x.t = "undefined"
           THEN obj2strFrom(obj, rootkey, i + 1, res)
           ELSE IF x.t = "object"
           THEN obj2strFrom(obj, rootkey, i + 1,
                            mergeSub(res, pref, obj2strFrom(x.v, key, 1, <<>>), 1))
           ELSE obj2strFrom(obj, rootkey, i + 1,
                            IF rootkey = key THEN Put(res, key, Str(toString(x)))
                            ELSE Put(res, pref \o key, Str(toString(x))))
_obj2str(obj, rootkey) == obj2strFrom(obj, rootkey, 1, <<>>)

\* _par2str(msg, empty): ":key=value" for every flat parameter with a value
RECURSIVE par2strFrom(_, _, _)
par2strFrom(flat, i, empty) ==
  IF i > Len(flat) THEN <<>>
  ELSE LET key == flat[i].k
           val == toString(flat[i].v)
       IN  (IF charAt(key, 0) = "_" \/ flat[i].v.t \in {"object", "function"} THEN <<>>
            ELSE IF val # <<>>
                 THEN <<":">> \o _escape(Str(key), "") \o <<"=">> \o _escape(Str(val), "")
                 ELSE IF empty THEN <<":">> \o _escape(Str(key), "") ELSE <<>>)
           \o par2strFrom(flat, i + 1, empty)
_par2str(msg, empty) == par2strFrom(_obj2str(msg, <<>>), 1, empty)

\* _deepCopy(dst, src, prefix, skip) into a plain object dst
RECURSIVE _deepCopy(_, _, _, _)
RECURSIVE deepCopyFrom(_, _, _, _, _)
deepCopyFrom(dst, src, prefix, skip, i) ==
  IF i > Len(src) THEN dst
  ELSE LET key == src[i].k
           x   == src[i].v
       IN  IF (startsWith(key, prefix) /\ skip) \/ x.t = "function"
           THEN deepCopyFrom(dst, src, prefix, skip, i + 1)
           ELSE IF x.t # "object"
           THEN deepCopyFrom(Put(dst, key, x), src, prefix, skip, i + 1)
           ELSE deepCopyFrom(Put(dst, key, Obj(_deepCopy(<<>>, x.v, <<"_">>, TRUE))),
                             src, prefix, skip, i + 1)
_deepCopy(dst, src, prefix, skip) == deepCopyFrom(dst, src, prefix, skip, 1)

(***************************************************************************)
(* YateMessage (index.js 362-467)                                          *)
(* A message is the property list of the instance: the fields _name,       *)
(* _time, _id, _type, _handled, ... and the parameters.  The prototype     *)
(* has the accessors name, time, handled and the read-only methods.        *)
(***************************************************************************)
K_name         == <<"_","n","a","m","e">>
K_time         == <<"_","t","i","m","e">>
K_id           == <<"_","i","d">>
K_type         == <<"_","t","y","p","e">>
K_handled      == <<"_","h","a","n","d","l","e","d">>
K_retvalue     == <<"_","r","e","t","v","a","l","u","e">>
K_acknowledged == <<"_","a","c","k","n","o","w","l","e","d","g","e","d">>
K_priority     == <<"_","p","r","i","o","r","i","t","y">>
K_success      == <<"_","s","u","c","c","e","s","s">>

A_name    == <<"n","a","m","e">>
A_time    == <<"t","i","m","e">>
A_handled == <<"h","a","n","d","l","e","d">>

\* Object.defineProperties(YateMessage.prototype, {...: { writable: false }})
ReadOnlyMethods ==
  { <<"g","e","t","P","a","r","a","m">>, <<"s","e","t","P","a","r","a","m">>, <<"c","o","p","y","P","a","r","a","m","s">>, <<"r","e","t","V","a","l","u","e">>, <<"m","s","g","T","i","m","e">>,
    <<"g","e","t","C","o","l","u","m","n">>, <<"g","e","t","R","o","w">>, <<"g","e","t","R","e","s","u","l","t">> }

\* set name(value), set time(value), set handled(value)
SetName(m, value)    == IF value.t = "string" THEN Put(m, K_name, value) ELSE m
SetTime(m, value)    == IF value.t = "string" THEN Put(m, K_time, value) ELSE m
SetHandled(m, value) == IF value.t = "boolean" THEN Put(m, K_handled, value) ELSE m

\* msg[key] = value on a YateMessage instance, in strict mode
SetProp(m, key, value) ==
  CASE key = A_name    -> Ok(SetName(m, value))
    [] key = A_time    -> Ok(SetTime(m, value))
    [] key = A_handled -> Ok(SetHandled(m, value))
    [] key \in ReadOnlyMethods -> Throw("TypeError")
    [] OTHER           -> Ok(Put(m, key, value))

\* key in msg, msg[key] on a YateMessage instance (own and prototype)
InMsg(m, key) ==
  Has(m, key) \/ key \in {A_name, A_time, A_handled} \/ key \in ReadOnlyMethods
GetProp(m, key) ==
  CASE key = A_name    -> Get(m, K_name)
    [] key = A_time    -> Get(m, K_time)
    [] key = A_handled -> Get(m, K_handled)
    [] key \in ReadOnlyMethods -> Fun("method")
    [] OTHER           -> Get(m, key)

\* copyParams(params, "", false) = _deepCopy(this, obj, "", false)
RECURSIVE copyParamsFrom(_, _, _)
copyParamsFrom(m, src, i) ==
  IF i > Len(src) THEN Ok(m)
  ELSE LET key == src[i].k
           x   == src[i].v
       IN  IF x.t = "function" THEN copyParamsFrom(m, src, i + 1)
           ELSE IF x.t # "object"
           THEN LET r == SetProp(m, key, x) IN
                IF r.ok THEN copyParamsFrom(r.v, src, i + 1) ELSE r
           ELSE LET r   == SetProp(m, key, Obj(<<>>))
                    sub == _deepCopy(<<>>, x.v, <<"_">>, TRUE)
                IN  IF ~r.ok THEN r
                    ELSE IF key \in {A_name, A_time, A_handled}
                    THEN IF sub = <<>> THEN copyParamsFrom(r.v, src, i + 1)
                         ELSE Throw("TypeError")
                    ELSE copyParamsFrom(Put(r.v, key, Obj(sub)), src, i + 1)

\* the values Date.now() and process.hrtime() give the constructor
NOW     == <<"n","o","w">>
FRESHID == <<"n","o","w",".","h","r","t","i","m","e">>

\* new YateMessage(name, params)
YateMessage(name, params) ==
  IF name.t # "string" \/ Len(toString(name)) < 1
  THEN Throw("Message name required.")
  ELSE copyParamsFrom(<<[k |-> K_name,    v |-> name],
                        [k |-> K_time,    v |-> Str(NOW)],
                        [k |-> K_id,      v |-> Str(FRESHID)],
                        [k |-> K_type,    v |-> Str(<<"o","u","t","g","o","i","n","g">>)],
                        [k |-> K_handled, v |-> Bool(FALSE)]>>,
                      IF params.t = "object" THEN params.v ELSE <<>>, 1)

\* msg.retValue(value)
retValue(m, value) == Put(m, K_retvalue, value)

(***************************************************************************)
(* _parseMessage (index.js 1596-1667)                                      *)
(***************************************************************************)
\* arg[i] of the split line: undefined past the end
argAt(arg, i) == IF i < Len(arg) THEN Str(arg[i + 1]) ELSE undefined

\* _unescape(arg[i]): reading .length of undefined throws
unescapeArg(arg, i) ==
  IF i < Len(arg) THEN Ok(Str(_unescape(arg[i + 1]))) ELSE Throw("TypeError")

\* a parser that reads no parameter
parseParamsNone(params, par, i) == params

\* the message param parser loop over arg.slice(5)
RECURSIVE parseParams(_, _, _)
parseParams(params, par, i) ==
  IF i > Len(par) THEN params
  ELSE LET pos == indexOf(par[i], "=") IN
       IF pos > 0
       THEN parseParams(Put(params, _unescape(substr(par[i], 0, pos)),
                            Str(_unescape(substrFrom(par[i], pos + 1)))), par, i + 1)
       ELSE parseParams(params, par, i + 1)

P(key, val) == [k |-> key, v |-> val]

\* the switch on arg[0]: the fields of params, or the exception of _unescape
parseFields(str, arg) ==
  CASE arg[1] = <<"%","%",">","m","e","s","s","a","g","e">> ->
         LET r == unescapeArg(arg, 4) IN
         IF ~r.ok THEN r
         ELSE Ok(<<P(K_id, argAt(arg, 1)), P(K_time, argAt(arg, 2)),
                   P(K_name, argAt(arg, 3)), P(K_retvalue, r.v),
                   P(K_type, Str(<<"i","n","c","o","m","i","n","g">>)), P(K_acknowledged, Bool(FALSE))>>)
    [] arg[1] = <<"%","%","<","m","e","s","s","a","g","e">> ->
         LET r == unescapeArg(arg, 4) IN
         IF ~r.ok THEN r
         ELSE Ok(<<P(K_id, argAt(arg, 1)), P(K_handled, _str2bool(argAt(arg, 2))),
                   P(K_name, argAt(arg, 3)), P(K_retvalue, r.v),
                   P(K_type, Str(IF truthy(argAt(arg, 1)) THEN <<"a","n","s","w","e","r">>
                                 ELSE <<"n","o","t","i","f","i","c","a","t","i","o","n">>))>>)
    [] arg[1] = <<"%","%","<","i","n","s","t","a","l","l">> ->
         Ok(<<P(K_priority, argAt(arg, 1)), P(K_name, argAt(arg, 2)),
              P(K_success, _str2bool(argAt(arg, 3))), P(K_type, Str(<<"i","n","s","t","a","l","l">>))>>)
    [] arg[1] = <<"%","%","<","u","n","i","n","s","t","a","l","l">> ->
         Ok(<<P(K_priority, argAt(arg, 1)), P(K_name, argAt(arg, 2)),
              P(K_success, argAt(arg, 3)), P(K_type, Str(<<"u","n","i","n","s","t","a","l","l">>))>>)
    [] arg[1] = <<"%","%","<","w","a","t","c","h">> ->
         Ok(<<P(K_name, argAt(arg, 1)), P(K_success, _str2bool(argAt(arg, 2))),
              P(K_type, Str(<<"w","a","t","c","h">>))>>)
    [] arg[1] = <<"%","%","<","u","n","w","a","t","c","h">> ->
         Ok(<<P(K_name, argAt(arg, 1)), P(K_success, _str2bool(argAt(arg, 2))),
              P(K_type, Str(<<"u","n","w","a","t","c","h">>))>>)
    [] arg[1] = <<"%","%","<","s","e","t","l","o","c","a","l">> ->
         LET r == unescapeArg(arg, 2) IN
         IF ~r.ok THEN r
         ELSE Ok(<<P(K_name, argAt(arg, 1)), P(K_retvalue, r.v),
                   P(K_success, _str2bool(argAt(arg, 3))), P(K_type, Str(<<"s","e","t","l","o","c","a","l">>))>>)
    [] OTHER ->
         Ok(<<P(K_name, Str(<<"e","r","r","o","r">>)), P(K_type, Str(<<"e","r","r","o","r">>)),
              P(K_retvalue, Str(str))>>)

\* the lines after the switch (l.1655-1666): the parameters of a message line
\* are parsed and unflattened into the fields f
withParams(f, arg) ==
  IF ~f.ok THEN f
  ELSE IF Get(f.v, K_type).v \in {<<"i","n","c","o","m","i","n","g">>, <<"a","n","s","w","e","r">>, <<"n","o","t","i","f","i","c","a","t","i","o","n">>}
  THEN _str2obj(parseParams(f.v, SubSeq(arg, 6, Len(arg)), 1))
  ELSE Ok(f.v)

\* return new YateMessage(params._name, params) (l.1666)
construct(params) ==
  IF ~params.ok THEN params ELSE YateMessage(Get(params.v, K_name), Obj(params.v))

\* the body of _parseMessage for arg = str.split(":")
parseArgs(str, arg) == construct(withParams(parseFields(str, arg), arg))

\* _parseMessage(str): Ok(message) or the exception thrown
_parseMessage(str) == parseArgs(str, split(str, ":"))

(***************************************************************************)
(* Defaults (index.js 19-28) and the options of the modelled instance:     *)
(* new Yate({host: ..., queue: 2}), network mode, the other options at     *)
(* their defaults                                                          *)
(***************************************************************************)
_TRACKNAME   == <<"n","e","x","t","-","y","a","t","e">>
_BUFFER_SIZE == 8192

\* options.queue of the instance, the argument of setMaxListeners (l.508): Node
\* prints a warning when an event gets more listeners, and adds them all the same
queue == 2

VARIABLES
  connected,  \* this._connected
  reconnect,  \* this._reconnect
  first_run,  \* this._first_run
  timer,      \* this._timer: "none", "ready" (l.676), "retry" (l.644, l.660), "rewrite" (l.1512)
  sock,       \* this._socket: "none", "connecting", "open", "ended", "failed"
  rl,         \* a readline interface feeds _read from the current socket
  initThen,   \* what follows the pending init() promise: "none", "app", "first", "restore"
  epoch,      \* the number of connections made ready so far
  signals,    \* the signals the handlers of this._socket have emitted (l.642, l.668)
  wire,       \* the lines handed to out.write, oldest first
  parked,     \* the once("_connect") listeners registered by _write and _output
  nops,       \* the number of _write/_output calls started so far
  setlocals,  \* this._setlocals
  installs,   \* this._installs (a slot with live = FALSE is a deleted element)
  watches,    \* this._watches
  waiters,    \* the listeners of the events _install,<name> ... _answer,<id>
  promises,   \* the promises the request layer has returned
  timers,     \* the armed timeouts of setlocal and dispatch: indices of promises
  inbox,      \* the incoming messages read so far (the objects handlers hold)
  invoked,    \* the handler invocations made by _read
  alive,      \* FALSE once an exception has left _read uncaught
  elapsed,    \* the inbox indices whose acknowledge_timeout has elapsed
  expired,    \* the promises whose deadline (dispatch_timeout) has elapsed
  call,       \* a call of a function of the module, its arguments and its result
  chan        \* the YateChannel the application has made, its fields and listeners

transport == <<connected, reconnect, first_run, timer, sock, rl, initThen, epoch,
               signals>>
outbound  == <<wire, parked, nops>>
registry  == <<setlocals, installs, watches>>
requests  == <<waiters, promises, timers>>
router    == <<inbox, invoked, alive, elapsed, expired>>
vars == <<transport, outbound, registry, requests, router, call, chan>>

(***************************************************************************)
(* The writer: _write, _output and the lines of the protocol               *)
(* (index.js 1502-1573).  The writer state W is the part of the instance   *)
(* _write reads and changes.                                               *)
(***************************************************************************)
Writer == [connected |-> connected, reconnect |-> reconnect, timer |-> timer,
           epoch |-> epoch, wire |-> wire, parked |-> parked, nops |-> nops]

endsWithNL(line) == Len(line) > 0 /\ line[Len(line)] = "^J"
trim(line) == IF Len(line) > _BUFFER_SIZE THEN substr(line, 0, _BUFFER_SIZE) ELSE line

\* the body of _write(line) for the call it (an operation number, a tag and a
\* line); throws tells whether out.write throws
write(W, it, throws) ==
  LET line == trim(it.line) IN
  IF W.connected
  THEN IF ~throws
       THEN [W EXCEPT !.wire = Append(@, [line  |-> IF endsWithNL(line) THEN line
                                                   ELSE line \o <<"^J">>,
                                          op |-> it.op, tag |-> it.tag,
                                          epoch |-> W.epoch])]
       ELSE [W EXCEPT !.connected = FALSE,
                      !.timer = IF W.reconnect THEN "rewrite" ELSE "none"]
  ELSE [W EXCEPT !.parked = Append(@, [it EXCEPT !.line = line])]

\* the body of _output(line)
output(W, it) ==
  LET line == trim(it.line) IN
  IF ~W.connected
  THEN [W EXCEPT !.parked = Append(@, [it EXCEPT !.line = line])]
  ELSE [W EXCEPT !.wire = Append(@, [line  |-> <<"%","%",">","o","u","t","p","u","t",":">> \o
                                       _unescape(IF endsWithNL(line) THEN line
                                                 ELSE line \o <<"^J">>),
                                     op |-> it.op, tag |-> it.tag,
                                     epoch |-> W.epoch])]

\* out.write of a socket or of stdout reports a failure through the "error"
\* event (SocketError below); it does not throw for a string chunk
OutWriteThrows == FALSE

\* this._write(line) and this._output(line) called as a new operation
_write(W, line, tag) ==
  write([W EXCEPT !.nops = @ + 1],
        [fn |-> "write", line |-> line, tag |-> tag, op |-> W.nops + 1],
        OutWriteThrows)
_output(W, line, tag) ==
  output([W EXCEPT !.nops = @ + 1],
         [fn |-> "output", line |-> line, tag |-> tag, op |-> W.nops + 1])

\* this.emit("_connect"): every parked listener is removed and run, in the
\* order of registration
RECURSIVE runParked(_, _, _)
runParked(W, list, i) ==
  IF i > Len(list) THEN W
  ELSE runParked(IF list[i].fn = "write" THEN write(W, list[i], OutWriteThrows)
                 ELSE output(W, list[i]), list, i + 1)
\* fault variant of emitConnect: the parked listeners run newest first
emitConnectNewestFirst(W) ==
  runParked([W EXCEPT !.parked = <<>>],
            [i \in 1..Len(W.parked) |-> W.parked[Len(W.parked) + 1 - i]], 1)

emitConnect(W) == runParked([W EXCEPT !.parked = <<>>], W.parked, 1)

\* _connect(role, id, type)
_connect(W, role, id, type) ==
  IF role \in {<<"g","l","o","b","a","l">>, <<"c","h","a","n","n","e","l">>, <<"p","l","a","y">>, <<"r","e","c","o","r","d">>, <<"p","l","a","y","r","e","c">>}
  THEN _write(W, <<"%","%",">","c","o","n","n","e","c","t",":">> \o role
                 \o (IF truthy(id) THEN <<":">> \o _escape(id, "") ELSE <<>>)
                 \o (IF truthy(type) THEN <<":">> \o _escape(type, "") ELSE <<>>),
              [k |-> "connect"])
  ELSE W

\* fault variant of _acknowledge: the test of msg._acknowledged is missing
_acknowledgeUnguarded(W, msg, m) ==
  IF ~isStr(Get(msg, K_type), <<"i","n","c","o","m","i","n","g">>)
  THEN [W |-> W, msg |-> msg]
  ELSE [W |-> _write(W, <<"%","%","<","m","e","s","s","a","g","e",":">> \o _escape(Get(msg, K_id), "") \o <<":">>
                        \o _bool2str(Get(msg, K_handled)) \o <<":", ":">>
                        \o _escape(Get(msg, K_retvalue), "")
                        \o _par2str(msg, FALSE),
                     [k |-> "ack", m |-> m]),
        msg |-> Put(msg, K_acknowledged, Bool(TRUE))]

\* _acknowledge(msg) for the inbox message m: the writer and the message after
_acknowledge(W, msg, m) ==
  IF ~isStr(Get(msg, K_type), <<"i","n","c","o","m","i","n","g">>) \/ truthy(Get(msg, K_acknowledged))
  THEN [W |-> W, msg |-> msg]
  ELSE [W |-> _write(W, <<"%","%","<","m","e","s","s","a","g","e",":">> \o _escape(Get(msg, K_id), "") \o <<":">>
                        \o _bool2str(Get(msg, K_handled)) \o <<":", ":">>
                        \o _escape(Get(msg, K_retvalue), "")
                        \o _par2str(msg, FALSE),
                     [k |-> "ack", m |-> m]),
        msg |-> Put(msg, K_acknowledged, Bool(TRUE))]

\* _setlocal(name, value), _watch(name), _unwatch(name), _uninstall(name)
_setlocal(W, name, value, tag) ==
  _write(W, <<"%","%",">","s","e","t","l","o","c","a","l",":">> \o name \o <<":">> \o _escape(value, ""), tag)
_watch(W, name, tag)     == _write(W, <<"%","%",">","w","a","t","c","h",":">> \o _escape(Str(name), ""), tag)
_unwatch(W, name, tag)   == _write(W, <<"%","%",">","u","n","w","a","t","c","h",":">> \o _escape(Str(name), ""), tag)
_uninstallSilent(W, name, tag) == W
_uninstall(W, name, tag) == _write(W, <<"%","%",">","u","n","i","n","s","t","a","l","l",":">> \o _escape(Str(name), ""), tag)

\* ("" + priority).match(/^\d+$/)
isDigits(s) == Len(s) > 0 /\ \A i \in 1..Len(s) : charCodeAt(s[i]) \in 48..57

\* _install(name, priority, filter, fvalue)
_install(W, name, priority, filter, fvalue, tag) ==
  LET prio == IF isDigits(toString(priority)) THEN priority ELSE Num(100) IN
  IF truthy(filter) /\ truthy(fvalue)
  THEN _write(W, <<"%","%",">","i","n","s","t","a","l","l",":">> \o toString(prio) \o <<":">> \o _escape(Str(name), "")
                 \o <<":">> \o toString(filter) \o <<":">> \o toString(fvalue), tag)
  ELSE _write(W, <<"%","%",">","i","n","s","t","a","l","l",":">> \o toString(prio) \o <<":">> \o _escape(Str(name), ""), tag)

\* _dispatch(msg)
_dispatch(W, msg, tag) ==
  IF ~isStr(Get(msg, K_type), <<"o","u","t","g","o","i","n","g">>) THEN W
  ELSE _write(W, <<"%","%",">","m","e","s","s","a","g","e",":">> \o _escape(Get(msg, K_id), "") \o <<":">>
                 \o toString(Get(msg, K_time)) \o <<":">>
                 \o _escape(Get(msg, K_name), "") \o <<":">> \o _par2str(msg, FALSE), tag)

\* the writer state put back into the variables
SetWriter(W) ==
  /\ connected' = W.connected
  /\ timer' = W.timer
  /\ wire' = W.wire
  /\ parked' = W.parked
  /\ nops' = W.nops

(***************************************************************************)
(* _restore (index.js 699-711)                                             *)
(***************************************************************************)
RECURSIVE restoreSetlocals(_, _, _)
restoreSetlocals(W, list, i) ==
  IF i > Len(list) THEN W
  ELSE restoreSetlocals(_setlocal(W, list[i].name, list[i].value, [k |-> "restore"]),
                        list, i + 1)
RECURSIVE restoreInstalls(_, _, _)
restoreInstalls(W, list, i) ==
  IF i > Len(list) THEN W
  ELSE restoreInstalls(IF list[i].live
                       THEN _install(W, list[i].name, list[i].priority, undefined,
                                     undefined, [k |-> "restore"])
                       ELSE W, list, i + 1)
RECURSIVE restoreWatches(_, _, _)
restoreWatches(W, list, i) ==
  IF i > Len(list) THEN W
  ELSE restoreWatches(IF list[i].live THEN _watch(W, list[i].name, [k |-> "restore"])
                      ELSE W, list, i + 1)
\* fault variants of _restore: the installs are replayed before the setlocals;
\* the watches are not replayed
_restoreInstallsFirst(W, sl, ins, wat) ==
  restoreWatches(restoreSetlocals(restoreInstalls(W, ins, 1), sl, 1), wat, 1)
_restoreWithoutWatches(W, sl, ins, wat) ==
  restoreInstalls(restoreSetlocals(W, sl, 1), ins, 1)

_restore(W, sl, ins, wat) ==
  restoreWatches(restoreInstalls(restoreSetlocals(W, sl, 1), ins, 1), wat, 1)

(***************************************************************************)
(* Promises and the correlation listeners of the EventEmitter              *)
(***************************************************************************)
\* a promise: its state, the value it settled with, and the number of times
\* its resolve function has been called
NewPromise(api, msg) ==
  [api |-> api, state |-> "pending", value |-> undefined, calls |-> 0, msg |-> msg]
Settled(api, state, value) ==
  [api |-> api, state |-> state, value |-> value, calls |-> 1, msg |-> <<>>]

\* resolve(value): only the first call settles the promise
resolve(ps, p, value) ==
  [ps EXCEPT ![p] = IF @.state = "pending"
                    THEN [@ EXCEPT !.state = "resolved", !.value = value, !.calls = @ + 1]
                    ELSE [@ EXCEPT !.calls = @ + 1]]

\* a listener: the event it waits for, whether it was added with once, and the
\* closure it runs (fn) with the variables the closure captured
Listener(ev, once, fn, p, idx, name, value) ==
  [ev |-> ev, once |-> once, fn |-> fn, p |-> p, idx |-> idx, name |-> name,
   value |-> value]

\* delete list[idx] (idx counted from 1): the slot stays, its element is gone
Hole == [live |-> FALSE, name |-> <<>>, handler |-> "", priority |-> undefined,
         filterName |-> undefined, filterValue |-> undefined]
delete(list, idx) ==
  IF idx \in 1..Len(list) THEN [list EXCEPT ![idx] = Hole] ELSE list

\* list[idx] = entry, idx = Len(list) + 1 appends
assign(list, idx, entry) ==
  IF idx \in 1..Len(list) THEN [list EXCEPT ![idx] = entry] ELSE Append(list, entry)

\* the state the listeners' closures read and change
Corr == [installs |-> installs, watches |-> watches, setlocals |-> setlocals,
         promises |-> promises, timers |-> timers, waiters |-> waiters]

\* index of the setlocal row of a name, Len + 1 when there is none (l.1325-1331)
setlocalRow(list, name) ==
  IF \E i \in 1..Len(list) : list[i].name = name
  THEN CHOOSE i \in 1..Len(list) :
         list[i].name = name /\ \A j \in 1..(i - 1) : list[j].name # name
  ELSE Len(list) + 1

\* the closure of one listener called with arg
runListener(C, l, arg) ==
  CASE l.fn = "install" ->   \* l.1085-1088, l.1095-1098
         [C EXCEPT !.installs = IF ~truthy(arg) THEN delete(@, l.idx) ELSE @,
                   !.promises = resolve(@, l.p, arg)]
    [] l.fn = "watch" ->     \* l.1222-1225
         [C EXCEPT !.watches = IF ~truthy(arg) THEN delete(@, l.idx) ELSE @,
                   !.promises = resolve(@, l.p, arg)]
    [] l.fn = "resolve" ->   \* l.1167, l.1287
         [C EXCEPT !.promises = resolve(@, l.p, arg)]
    [] l.fn = "setlocal" ->  \* l.1321-1335, arg is the setlocal message
         [C EXCEPT !.timers = @ \ {l.p},
                   !.setlocals = IF l.value.t # "undefined" /\ truthy(Get(arg, K_success))
                                 THEN assign(@, setlocalRow(@, l.name),
                                             [name |-> l.name, value |-> l.value])
                                 ELSE @,
                   !.promises = resolve(@, l.p, IF truthy(Get(arg, K_success))
                                                THEN Get(arg, K_retvalue)
                                                ELSE undefined)]
    [] OTHER ->              \* "answer", l.1395-1398, arg is the answer message
         [C EXCEPT !.timers = @ \ {l.p},
                   !.promises = resolve(@, l.p, Obj(arg))]

\* the positions in list of the listeners of event ev
listening(list, ev) == {i \in 1..Len(list) : list[i].ev = ev}

RECURSIVE runListeners(_, _, _, _)
runListeners(C, snapshot, i, arg) ==
  IF i > Len(snapshot) THEN C
  ELSE runListeners(runListener(C, snapshot[i], arg), snapshot, i + 1, arg)

\* the elements of list at the positions in keep, in order
RECURSIVE pick(_, _, _)
pick(list, keep, i) ==
  IF i > Len(list) THEN <<>>
  ELSE (IF i \in keep THEN <<list[i]>> ELSE <<>>) \o pick(list, keep, i + 1)

\* this.emit(ev, arg): the listeners of ev run in the order they were added;
\* those added with once are removed
emit(C, ev, arg) ==
  LET hit  == listening(C.waiters, ev)
      kept == {i \in 1..Len(C.waiters) : i \notin hit \/ ~C.waiters[i].once}
  IN  runListeners([C EXCEPT !.waiters = pick(C.waiters, kept, 1)],
                   pick(C.waiters, hit, 1), 1, arg)

SetCorr(C) ==
  /\ installs' = C.installs
  /\ watches' = C.watches
  /\ setlocals' = C.setlocals
  /\ promises' = C.promises
  /\ timers' = C.timers
  /\ waiters' = C.waiters

(***************************************************************************)
(* The request layer: install, uninstall, watch, unwatch, setlocal,        *)
(* dispatch, enqueue, output, acknowledge (index.js 1010-1418).  Each      *)
(* operator gives the state [W, C] after the call.                         *)
(***************************************************************************)
St(W, C) == [W |-> W, C |-> C]

strOrUndef(x) == IF x.t = "string" THEN x ELSE undefined

\* a scan that never finds the entry to replace
installScanAppends(list, i, name, priority, filterName, filterValue) ==
  [installed |-> \E j \in 1..i : list[j].live /\ list[j].name = name,
   replace |-> 0, add |-> Len(list) + 1,
   reinstall |-> \E j \in 1..i : list[j].live /\ list[j].name = name
                                 /\ list[j].priority # priority]

\* a scan that takes every installed name for one to reinstall
installScanReinstalls(list, i, name, priority, filterName, filterValue) ==
  LET same == {j \in 1..i : list[j].live /\ list[j].name = name}
      key  == {j \in same : list[j].filterName = filterName
                            /\ list[j].filterValue = filterValue}
      hole == {j \in 1..i : ~list[j].live}
      last(S) == CHOOSE j \in S : \A k \in S : k <= j
  IN  [installed |-> same # {},
       replace |-> IF key = {} THEN 0 ELSE last(key),
       add |-> IF hole = {} THEN Len(list) + 1 ELSE last(hole),
       reinstall |-> same # {}]

\* the scan of install (l.1060-1071) over the slots 1..i
RECURSIVE installScan(_, _, _, _, _, _)
installScan(list, i, name, priority, filterName, filterValue) ==
  IF i = 0
  THEN [installed |-> FALSE, replace |-> 0, add |-> Len(list) + 1, reinstall |-> FALSE]
  ELSE LET s == installScan(list, i - 1, name, priority, filterName, filterValue)
           e == list[i]
       IN  IF ~e.live THEN [s EXCEPT !.add = i]
           ELSE IF e.name = name
           THEN [s EXCEPT !.installed = TRUE,
                          !.reinstall = @ \/ e.priority # priority,
                          !.replace = IF e.filterName = filterName
                                         /\ e.filterValue = filterValue
                                      THEN i ELSE @]
           ELSE s

\* install(handler, name, prio, filter, fvalue)
install(S, handler, name, prio, filter, fvalue) ==
  IF handler.t # "function" \/ name.t # "string"
  THEN St(S.W, [S.C EXCEPT !.promises = Append(@, Settled("install", "rejected",
                                                          Str(<<"I","n","s","t","a","l","l"," ","a","r","g","u","m","e","n","t","s"," ","e","r","r","o","r","."," ","H","a","n","d","l","e","r"," ","a","n","d"," ","M","e","s","s","a","g","e"," ","n","a","m","e"," ","a","r","e"," ","r","e","q","u","i","r","e","d",".">>)))])
  ELSE
  LET priority    == IF prio.t # "number" THEN Num(100) ELSE prio
      filterName  == IF prio.t # "number" THEN strOrUndef(prio) ELSE strOrUndef(filter)
      filterValue == IF prio.t # "number" THEN strOrUndef(filter) ELSE strOrUndef(fvalue)
      s   == installScan(S.C.installs, Len(S.C.installs), name.v, priority,
                         filterName, filterValue)
      idx == IF s.replace = 0 THEN s.add ELSE s.replace
      reg == assign(S.C.installs, idx,
                    [live |-> TRUE, name |-> name.v, handler |-> handler.v,
                     priority |-> priority, filterName |-> filterName,
                     filterValue |-> filterValue])
      p   == Len(S.C.promises) + 1
      wait == [S.C EXCEPT !.installs = reg,
                          !.promises = Append(@, NewPromise("install", <<>>)),
                          !.waiters = Append(@, Listener(<<"_install", name.v>>, TRUE,
                                                         "install", p, idx, name.v,
                                                         undefined))]
  IN  IF ~s.installed
      THEN St(_install(S.W, name.v, priority, undefined, undefined, [k |-> "app"]), wait)
      ELSE IF s.reinstall
      THEN St(_install(_uninstall(S.W, name.v, [k |-> "app"]), name.v, priority,
                       undefined, undefined, [k |-> "app"]), wait)
      ELSE St(S.W, [S.C EXCEPT !.installs = reg,
                               !.promises = Append(@, Settled("install", "resolved",
                                                              Bool(TRUE)))])

\* the arguments of uninstall(...args) (l.1117-1139)
argOf(args, i, type) ==
  IF i <= Len(args) /\ args[i].t = type THEN args[i] ELSE undefined
uninstallArgs(args) ==
  CASE Len(args) > 4 ->
         [handler |-> argOf(args, 1, "function"), name |-> argOf(args, 2, "string"),
          priority |-> argOf(args, 3, "number"), filterName |-> argOf(args, 4, "string"),
          filterValue |-> argOf(args, 5, "string")]
    [] Len(args) = 4 ->
         [handler |-> argOf(args, 1, "function"), name |-> argOf(args, 2, "string"),
          priority |-> undefined, filterName |-> argOf(args, 3, "string"),
          filterValue |-> argOf(args, 4, "string")]
    [] Len(args) = 3 ->
         [handler |-> undefined, name |-> argOf(args, 1, "string"),
          priority |-> undefined, filterName |-> argOf(args, 2, "string"),
          filterValue |-> argOf(args, 3, "string")]
    [] Len(args) = 2 ->
         [handler |-> argOf(args, 1, "function"), name |-> argOf(args, 2, "string"),
          priority |-> undefined, filterName |-> undefined, filterValue |-> undefined]
    [] Len(args) = 1 ->
         [handler |-> undefined, name |-> argOf(args, 1, "string"),
          priority |-> undefined, filterName |-> undefined, filterValue |-> undefined]
    [] OTHER ->
         [handler |-> undefined, name |-> undefined, priority |-> undefined,
          filterName |-> undefined, filterValue |-> undefined]

\* a removal loop that takes every live entry of the name
removeMatchingName(list, a, withPriority) ==
  [i \in 1..Len(list) |->
     IF list[i].live /\ list[i].name = a.name.v THEN Hole ELSE list[i]]

\* the removal loops of uninstall (l.1144-1153) and unwatch (l.1265-1273)
removeMatching(list, a, withPriority) ==
  [i \in 1..Len(list) |->
     LET e == list[i] IN
     IF ~(e.live /\ e.name = a.name.v) THEN e
     ELSE IF truthy(a.filterName) /\ e.filterName # a.filterName THEN e
     ELSE IF truthy(a.filterValue) /\ e.filterValue # a.filterValue THEN e
     ELSE IF withPriority /\ truthy(a.priority) /\ e.priority # a.priority THEN e
     ELSE IF truthy(a.handler) /\ e.handler # a.handler.v THEN e
     ELSE IF ~truthy(a.handler) /\ ~truthy(a.filterName) /\ ~truthy(a.filterValue)
             /\ truthy(e.filterName) /\ truthy(e.filterValue) THEN e
     ELSE Hole]

hasName(list, name) == \E i \in 1..Len(list) : list[i].live /\ list[i].name = name

\* uninstall(...args)
uninstall(S, args) ==
  LET a == uninstallArgs(args) IN
  IF ~truthy(a.name)
  THEN St(S.W, [S.C EXCEPT !.promises = Append(@, Settled("uninstall", "rejected",
                                                          Str(<<"U","n","i","n","s","t","a","l","l"," ","a","r","g","u","m","e","n","t","s"," ","e","r","r","o","r","."," ","M","e","s","s","a","g","e"," ","n","a","m","e"," ","r","e","q","u","i","r","e","d",".">>)))])
  ELSE
  LET reg == removeMatching(S.C.installs, a, TRUE)
      p   == Len(S.C.promises) + 1
  IN  IF ~hasName(reg, a.name.v)
      THEN St(_uninstall(S.W, a.name.v, [k |-> "app"]),
              [S.C EXCEPT !.installs = reg,
                          !.promises = Append(@, NewPromise("uninstall", <<>>)),
                          !.waiters = Append(@, Listener(<<"_uninstall", a.name.v>>, FALSE,
                                                         "resolve", p, 0, a.name.v,
                                                         undefined))])
      ELSE St(S.W, [S.C EXCEPT !.installs = reg,
                               !.promises = Append(@, Settled("uninstall", "resolved",
                                                              Bool(FALSE)))])

\* the scan of watch (l.1200-1209) over the slots 1..i
RECURSIVE watchScan(_, _, _, _, _)
watchScan(list, i, name, filterName, filterValue) ==
  IF i = 0 THEN [watched |-> FALSE, replace |-> 0, add |-> Len(list) + 1]
  ELSE LET s == watchScan(list, i - 1, name, filterName, filterValue)
           e == list[i]
       IN  IF ~e.live THEN [s EXCEPT !.add = i]
           ELSE IF e.name = name
           THEN [s EXCEPT !.watched = TRUE,
                          !.replace = IF e.filterName = filterName
                                         /\ e.filterValue = filterValue
                                      THEN i ELSE @]
           ELSE s

\* watch(handler, name, filterName, filterValue)
watch(S, handler, name, filterName, filterValue) ==
  IF handler.t # "function" \/ name.t # "string"
  THEN St(S.W, [S.C EXCEPT !.promises = Append(@, Settled("watch", "rejected",
                                                          Str(<<"W","a","t","c","h"," ","a","r","g","u","m","e","n","t","s"," ","e","r","r","o","r","."," ","H","a","n","d","l","e","r"," ","a","n","d"," ","m","e","s","s","a","g","e"," ","n","a","m","e"," ","a","r","e"," ","r","e","q","u","i","r","e","d",".">>)))])
  ELSE
  LET s   == watchScan(S.C.watches, Len(S.C.watches), name.v, filterName, filterValue)
      idx == IF s.replace = 0 THEN s.add ELSE s.replace
      reg == assign(S.C.watches, idx,
                    [live |-> TRUE, name |-> name.v, handler |-> handler.v,
                     priority |-> undefined, filterName |-> strOrUndef(filterName),
                     filterValue |-> strOrUndef(filterValue)])
      p   == Len(S.C.promises) + 1
  IN  IF ~s.watched
      THEN St(_watch(S.W, name.v, [k |-> "app"]),
              [S.C EXCEPT !.watches = reg,
                          !.promises = Append(@, NewPromise("watch", <<>>)),
                          !.waiters = Append(@, Listener(<<"_watch", name.v>>, TRUE,
                                                         "watch", p, idx, name.v,
                                                         undefined))])
      ELSE St(S.W, [S.C EXCEPT !.watches = reg,
                               !.promises = Append(@, Settled("watch", "resolved",
                                                              Bool(TRUE)))])

\* the arguments of unwatch(...args) (l.1244-1260)
unwatchArgs(args) ==
  CASE Len(args) > 3 ->
         [handler |-> argOf(args, 1, "function"), name |-> argOf(args, 2, "string"),
          priority |-> undefined, filterName |-> argOf(args, 3, "string"),
          filterValue |-> argOf(args, 4, "string")]
    [] Len(args) = 3 ->
         [handler |-> undefined, name |-> argOf(args, 1, "string"),
          priority |-> undefined, filterName |-> argOf(args, 2, "string"),
          filterValue |-> argOf(args, 3, "string")]
    [] Len(args) = 2 ->
         [handler |-> argOf(args, 1, "function"), name |-> argOf(args, 2, "string"),
          priority |-> undefined, filterName |-> undefined, filterValue |-> undefined]
    [] Len(args) = 1 ->
         [handler |-> undefined, name |-> argOf(args, 1, "string"),
          priority |-> undefined, filterName |-> undefined, filterValue |-> undefined]
    [] OTHER ->
         [handler |-> undefined, name |-> undefined, priority |-> undefined,
          filterName |-> undefined, filterValue |-> undefined]

\* unwatch(...args); without a name it throws to the caller and changes nothing
unwatch(S, args) ==
  LET a == unwatchArgs(args) IN
  IF ~truthy(a.name) THEN S
  ELSE
  LET reg == removeMatching(S.C.watches, a, FALSE)
      p   == Len(S.C.promises) + 1
  IN  IF ~hasName(reg, a.name.v)
      THEN St(_unwatch(S.W, a.name.v, [k |-> "app"]),
              [S.C EXCEPT !.watches = reg,
                          !.promises = Append(@, NewPromise("unwatch", <<>>)),
                          !.waiters = Append(@, Listener(<<"_uninstall", a.name.v>>, FALSE,
                                                         "resolve", p, 0, a.name.v,
                                                         undefined))])
      ELSE St(S.W, [S.C EXCEPT !.watches = reg,
                               !.promises = Append(@, Settled("unwatch", "resolved",
                                                              Bool(FALSE)))])

\* setlocal(name, value)
setlocal(S, name, value) ==
  IF name.t = "string" /\ value.t \in {"string", "boolean", "number", "undefined"}
  THEN LET p == Len(S.C.promises) + 1 IN
       St(_setlocal(S.W, name.v, value, [k |-> "app"]),
          [S.C EXCEPT !.promises = Append(@, NewPromise("setlocal", <<>>)),
                      !.waiters = Append(@, Listener(<<"_setlocal", name.v>>, TRUE,
                                                     "setlocal", p, 0, name.v, value)),
                      !.timers = @ \cup {p}])
  ELSE St(S.W, [S.C EXCEPT !.promises = Append(@, Settled("setlocal", "rejected",
                                                          Str(<<"S","e","t","l","o","c","a","l"," ","a","r","g","u","m","e","n","t","s"," ","e","r","r","o","r","."," ","A","t"," ","l","e","a","s","t"," ","n","a","m","e"," ","r","e","q","u","i","r","e","d",".">>)))])

\* the keys of getEnvironment (l.981-985)
EnvKeys ==
  <<<<"v","e","r","s","i","o","n">>, <<"r","e","l","e","a","s","e">>, <<"n","o","d","e","n","a","m","e">>, <<"r","u","n","i","d">>, <<"c","o","n","f","i","g","n","a","m","e">>, <<"s","h","a","r","e","d","p","a","t","h">>,
    <<"c","o","n","f","i","g","p","a","t","h">>, <<"c","f","g","s","u","f","f","i","x">>, <<"m","o","d","u","l","e","p","a","t","h">>, <<"m","o","d","s","u","f","f","i","x">>, <<"l","o","g","f","i","l","e">>,
    <<"c","l","i","e","n","t","m","o","d","e">>, <<"s","u","p","e","r","v","i","s","e","d">>, <<"m","a","x","w","o","r","k","e","r","s">>>>

\* getEnvironment from its key i on: env.map (l.988-996) calls setlocal for each
\* key with the callback as its first argument and "engine." + key as its
\* second; Promise.all(...).then(...) is the promise returned (l.987-999)
RECURSIVE getEnvironmentFrom(_, _)
getEnvironmentFrom(S, i) ==
  IF i > Len(EnvKeys)
  THEN St(S.W, [S.C EXCEPT !.promises = Append(@, NewPromise("getEnvironment", <<>>))])
  ELSE getEnvironmentFrom(setlocal(S, Fun("ans"), Str(<<"e","n","g","i","n","e",".">> \o EnvKeys[i])), i + 1)

\* getEnvironment()
getEnvironment(S) == getEnvironmentFrom(S, 1)

\* the timeout of setlocal (l.1338-1341)
setlocalTimeout(C, p) ==
  [C EXCEPT !.timers = @ \ {p}, !.promises = resolve(@, p, Bool(FALSE))]

isMessage(msg) == Has(msg, K_id) /\ Has(msg, K_name) /\ Has(msg, K_time)

\* enqueue(msg)
enqueue(S, msg) ==
  IF isMessage(msg)
  THEN St(_dispatch(S.W, msg, [k |-> "app"]),
          [S.C EXCEPT !.promises = Append(@, Settled("enqueue", "resolved", Obj(msg)))])
  ELSE St(S.W, [S.C EXCEPT !.promises = Append(@, Settled("enqueue", "rejected",
                                                          Str(<<"E","q","u","e","u","e"," ","a","r","g","u","m","e","n","t","s"," ","e","r","r","o","r","."," ","Y","a","t","e","M","e","s","s","a","g","e"," ","r","e","q","u","i","r","e","d",".">>)))])

\* dispatch(msg)
dispatch(S, msg) ==
  IF isMessage(msg)
  THEN LET p == Len(S.C.promises) + 1 IN
       St(_dispatch(S.W, msg, [k |-> "app"]),
          [S.C EXCEPT !.promises = Append(@, NewPromise("dispatch", msg)),
                      !.waiters = Append(@, Listener(<<"_answer", toString(Get(msg, K_id))>>,
                                                     TRUE, "answer", p, 0, <<>>, undefined)),
                      !.timers = @ \cup {p}])
  ELSE St(S.W, [S.C EXCEPT !.promises = Append(@, Settled("dispatch", "rejected",
                                                          Str(<<"D","i","s","p","a","c","h"," ","a","r","g","u","m","e","n","t","s"," ","e","r","r","o","r","."," ","Y","a","t","e","M","e","s","s","a","g","e"," ","r","e","q","u","i","r","e","d",".">>)))])

\* removeListener(event, handler): the listener of promise p is removed
removeListener(list, ev, p) ==
  pick(list, {i \in 1..Len(list) : ~(list[i].ev = ev /\ list[i].p = p)}, 1)

\* fault variant of the timeout of dispatch: the listener is not removed
dispatchTimeoutKeepsWaiter(C, p) ==
  LET msg == Put(C.promises[p].msg, K_handled, Bool(FALSE)) IN
  [C EXCEPT !.timers = @ \ {p},
            !.promises = resolve([@ EXCEPT ![p].msg = msg], p, Obj(msg))]

\* the timeout of dispatch (l.1400-1404)
dispatchTimeout(C, p) ==
  LET msg == Put(C.promises[p].msg, K_handled, Bool(FALSE)) IN
  [C EXCEPT !.timers = @ \ {p},
            !.waiters = removeListener(@, <<"_answer", toString(Get(msg, K_id))>>, p),
            !.promises = resolve([@ EXCEPT ![p].msg = msg], p, Obj(msg))]

\* output(...args) for the joined text: one _output per line of the text
RECURSIVE outputLines(_, _, _)
outputLines(W, lines, i) ==
  IF i > Len(lines) THEN W
  ELSE outputLines(_output(W, lines[i], [k |-> "output"]), lines, i + 1)
outputText(W, text) == outputLines(W, split(text, "^J"), 1)

(***************************************************************************)
(* The channel: YateChannel (index.js 45-339).  A state [W, C, ch] is the  *)
(* writer, the listeners' state and the fields of the channel.             *)
(***************************************************************************)
_CALL_TIMEOUT == 3600000

Chan(S, ch) == [W |-> S.W, C |-> S.C, ch |-> ch]

\* the closures callTo hands to watch, one for each call of callTo
CallToHandlers == <<"callTo1", "callTo2", "callTo3", "callTo4">>

\* reject(value): only the first call of resolve or reject settles the promise
reject(ps, p, value) ==
  [ps EXCEPT ![p] = IF @.state = "pending"
                    THEN [@ EXCEPT !.state = "rejected", !.value = value, !.calls = @ + 1]
                    ELSE [@ EXCEPT !.calls = @ + 1]]

\* new YateChannel(message) for a call.route or call.execute message that is
\* not outgoing (l.45-76); any other message makes the constructor throw
YateChannel(S, message) ==
  Chan(watch(watch(S, Fun("chan.noop"), Str(<<"c","h","a","n",".","n","o","t","i","f","y">>), Str(<<"i","d">>),
                   GetProp(message, <<"i","d">>)),
             Fun("chan.hangup"), Str(<<"c","h","a","n",".","h","a","n","g","u","p">>), Str(<<"i","d">>), GetProp(message, <<"i","d">>)),
       [made   |-> TRUE,
        id     |-> GetProp(message, <<"i","d">>),
        peerid |-> GetProp(message, <<"p","e","e","r","i","d">>),
        status |-> IF truthy(GetProp(message, <<"a","n","s","w","e","r","e","d">>))
                      \/ truthy(GetProp(message, <<"a","u","t","o","a","n","s","w","e","r">>))
                   THEN Str(<<"a","n","s","w","e","r","e","d">>) ELSE GetProp(message, <<"s","t","a","t","u","s">>),
        ready  |-> isStr(GetProp(message, A_name), <<"c","a","l","l",".","e","x","e","c","u","t","e">>)
                   /\ isStr(Get(message, K_type), <<"n","o","t","i","f","i","c","a","t","i","o","n">>),
        resets |-> {},
        calls  |-> <<>>])

\* the forEach over _watches of the hangup handler (l.69-71) from the slot i on
RECURSIVE hangupWatches(_, _, _)
hangupWatches(S, id, i) ==
  IF i > Len(S.C.watches) THEN S
  ELSE IF S.C.watches[i].live /\ S.C.watches[i].filterName = Str(<<"i","d">>)
          /\ S.C.watches[i].filterValue = id
  THEN hangupWatches(unwatch(S, <<Fun(S.C.watches[i].handler), Str(S.C.watches[i].name),
                                  S.C.watches[i].filterName, S.C.watches[i].filterValue>>),
                     id, i + 1)
  ELSE hangupWatches(S, id, i + 1)

\* the forEach over _installs of the hangup handler (l.72-74) from the slot i on
RECURSIVE hangupInstalls(_, _, _)
hangupInstalls(S, id, i) ==
  IF i > Len(S.C.installs) THEN S
  ELSE IF S.C.installs[i].live /\ S.C.installs[i].filterName = Str(<<"i","d">>)
          /\ S.C.installs[i].filterValue = id
  THEN hangupInstalls(uninstall(S, <<Fun(S.C.installs[i].handler),
                                     Str(S.C.installs[i].name), S.C.installs[i].priority,
                                     S.C.installs[i].filterName,
                                     S.C.installs[i].filterValue>>),
                      id, i + 1)
  ELSE hangupInstalls(S, id, i + 1)

\* the handler the constructor watches chan.hangup with (l.65-75);
\* removeAllListeners() removes the listeners of reset
hangupHandler(X) ==
  Chan(hangupInstalls(hangupWatches(St(X.W, X.C), X.ch.id, 1), X.ch.id, 1),
       [X.ch EXCEPT !.ready = FALSE, !.status = Str(<<"h","a","n","g","u","p">>), !.resets = {}])

\* channel.reset(message): emit("reset", message) calls the reject of every
\* pending callTo; the listeners were added with once (l.125-127, l.176)
reset(X, message) ==
  Chan(St(X.W, [X.C EXCEPT !.promises =
                  [p \in 1..Len(@) |->
                     IF \E k \in X.ch.resets : X.ch.calls[k].p = p
                     THEN reject(@, p, message)[p] ELSE @[p]]]),
       [X.ch EXCEPT !.resets = {}])

\* the targetid of a callTo made when Date.now() is t (l.139)
notifyOf(t) == _TRACKNAME \o <<"-","n","o","t","i","f","y","/">> \o digits(t)

\* str.slice(i) for 0 <= i
slice(str, i) == SubSeq(str, i + 1, Len(str))

\* the local timeout of callTo for a tone/dtmf target (l.140-141, l.157-161)
toneTimeout(dst, params) ==
  IF ~(Get(params, <<"t","i","m","e","o","u","t">>).t = "number" /\ truthy(Get(params, <<"t","i","m","e","o","u","t">>)))
     /\ startsWith(dst, <<"t","o","n","e","/","d","t","m","f","s","t","r","/">>)
  THEN Len(slice(dst, 14)) * 250
  ELSE 250

\* the chan.attach message of callTo (l.142-171)
attachOf(ch, dst, params, t) ==
  copyParamsFrom(
    IF startsWith(dst, <<"w","a","v","e","/","r","e","c","o","r","d">>)
    THEN Put(Put(Put(YateMessage(Str(<<"c","h","a","n",".","m","a","s","q","u","e","r","a","d","e">>),
                                 Obj(<<P(<<"m","e","s","s","a","g","e">>, Str(<<"c","h","a","n",".","a","t","t","a","c","h">>)),
                                       P(<<"i","d">>, ch.peerid),
                                       P(<<"n","o","t","i","f","y">>, Str(notifyOf(t)))>>)).v,
                     <<"s","o","u","r","c","e">>, Str(<<"w","a","v","e","/","p","l","a","y","/","-">>)), <<"c","o","n","s","u","m","e","r">>, Str(dst)),
             <<"m","a","x","l","e","n">>, Num(180000))
    ELSE IF startsWith(dst, <<"t","o","n","e","/","d","t","m","f">>)
    THEN Put(Put(YateMessage(Str(<<"c","h","a","n",".","m","a","s","q","u","e","r","a","d","e">>),
                             Obj(<<P(<<"m","e","s","s","a","g","e">>, Str(<<"c","h","a","n",".","a","t","t","a","c","h">>)),
                                   P(<<"i","d">>, ch.peerid),
                                   P(<<"n","o","t","i","f","y">>, Str(notifyOf(t)))>>)).v,
                 <<"i","d">>, ch.id), <<"o","v","e","r","r","i","d","e">>, Str(dst))
    ELSE Put(Put(YateMessage(Str(<<"c","h","a","n",".","m","a","s","q","u","e","r","a","d","e">>),
                             Obj(<<P(<<"m","e","s","s","a","g","e">>, Str(<<"c","h","a","n",".","a","t","t","a","c","h">>)),
                                   P(<<"i","d">>, ch.peerid),
                                   P(<<"n","o","t","i","f","y">>, Str(notifyOf(t)))>>)).v,
                 <<"s","o","u","r","c","e">>, Str(dst)), <<"c","o","n","s","u","m","e","r">>, Str(<<"w","a","v","e","/","r","e","c","o","r","d","/","-">>)),
    params, 1).v

\* the promise of callTo: the reset listener, the watcher of the targetid, the
\* timer and the enqueue of the attach message (l.174-176, l.184-200)
callToPromise(X, attach, params, t) ==
  Chan(enqueue(watch(St(X.W, [X.C EXCEPT !.promises =
                                 Append(@, NewPromise("callTo", attach))]),
                     Fun(CallToHandlers[Len(X.ch.calls) + 1]), Str(<<"c","h","a","n",".","n","o","t","i","f","y">>),
                     Str(<<"t","a","r","g","e","t","i","d">>), Str(notifyOf(t))),
               attach),
       [X.ch EXCEPT !.resets = @ \cup {Len(X.ch.calls) + 1},
                    !.calls = Append(@, [notify |-> notifyOf(t),
                                         p      |-> Len(X.C.promises) + 1,
                                         attach |-> attach,
                                         timer  |-> TRUE,
                                         delay  |-> IF Get(params, <<"t","i","m","e","o","u","t">>).t = "number"
                                                       /\ truthy(Get(params, <<"t","i","m","e","o","u","t">>))
                                                    THEN Get(params, <<"t","i","m","e","o","u","t">>).v
                                                    ELSE _CALL_TIMEOUT,
                                         now    |-> t,
                                         tone   |-> FALSE,
                                         waits  |-> FALSE])])

\* the promise of callTo for a tone/dtmf target: the reset listener and the
\* dispatch of the attach message, whose answer starts the timer (l.174-182)
callToTone(X, attach, timeout, t) ==
  Chan(dispatch(St(X.W, [X.C EXCEPT !.promises = Append(@, NewPromise("callTo", attach))]),
                attach),
       [X.ch EXCEPT !.resets = @ \cup {Len(X.ch.calls) + 1},
                    !.calls = Append(@, [notify |-> notifyOf(t),
                                         p      |-> Len(X.C.promises) + 1,
                                         attach |-> attach,
                                         timer  |-> FALSE,
                                         delay  |-> IF timeout # 0 THEN timeout ELSE 250,
                                         now    |-> t,
                                         tone   |-> TRUE,
                                         waits  |-> TRUE])])

\* channel.callTo(dst, params) when Date.now() is t (l.136-201)
callTo(X, dst, params, t) ==
  IF ~X.ch.ready \/ dst.t # "string"
  THEN Chan(St(X.W, [X.C EXCEPT !.promises =
                       Append(@, Settled("callTo", "resolved", Bool(FALSE)))]), X.ch)
  ELSE IF startsWith(dst.v, <<"t","o","n","e","/","d","t","m","f">>)
  THEN callToTone(X, attachOf(X.ch, dst.v, params, t), toneTimeout(dst.v, params), t)
  ELSE callToPromise(X, attachOf(X.ch, dst.v, params, t), params, t)

\* the handler callTo k watches chan.notify with (l.186-191)
callToHandler(X, k, message) ==
  Chan(unwatch(St(X.W, [X.C EXCEPT !.promises = resolve(@, X.ch.calls[k].p, Obj(message))]),
               <<Fun(CallToHandlers[k]), Str(<<"c","h","a","n",".","n","o","t","i","f","y">>), Str(<<"t","a","r","g","e","t","i","d">>),
                 Str(X.ch.calls[k].notify)>>),
       [X.ch EXCEPT !.calls[k].timer = FALSE, !.resets = @ \ {k}])

\* the then-callback of the dispatch of the tone callTo k, called with the
\* message the dispatch resolved with: it starts the timer (l.180-181)
callToThen(X, k, message) ==
  Chan(St(X.W, X.C), [X.ch EXCEPT !.calls[k].timer = TRUE, !.calls[k].waits = FALSE,
                                  !.calls[k].attach = message])

\* the timer of callTo k fires (l.194-198; l.181 for a tone/dtmf target)
callToTimeout(X, k) ==
  IF X.ch.calls[k].tone
  THEN Chan(St(X.W, [X.C EXCEPT !.promises =
                       resolve(@, X.ch.calls[k].p,
                               Obj(Put(X.ch.calls[k].attach, <<"r","e","a","s","o","n">>, Str(<<"e","o","f">>))))]),
            [X.ch EXCEPT !.calls[k].timer = FALSE,
                         !.calls[k].attach = Put(@, <<"r","e","a","s","o","n">>, Str(<<"e","o","f">>))])
  ELSE
  Chan(unwatch(St(X.W, [X.C EXCEPT !.promises =
                          resolve(@, X.ch.calls[k].p,
                                  Obj(Put(X.ch.calls[k].attach, <<"r","e","a","s","o","n">>, Str(<<"e","o","f">>))))]),
               <<Fun(CallToHandlers[k]), Str(<<"c","h","a","n",".","n","o","t","i","f","y">>), Str(<<"t","a","r","g","e","t","i","d">>),
                 Str(X.ch.calls[k].notify)>>),
       [X.ch EXCEPT !.calls[k].timer = FALSE, !.resets = @ \ {k},
                    !.calls[k].attach = Put(@, <<"r","e","a","s","o","n">>, Str(<<"e","o","f">>))])

\* the chan.masquerade message of ringing, progress and answered
\* (l.242-247, l.265-270, l.288-293)
masquerade(ch, message, params) ==
  copyParamsFrom(YateMessage(Str(<<"c","h","a","n",".","m","a","s","q","u","e","r","a","d","e">>),
                             Obj(<<P(<<"m","e","s","s","a","g","e">>, Str(message)), P(<<"i","d">>, ch.peerid),
                                   P(<<"t","a","r","g","e","t","i","d">>, ch.id)>>)).v,
                 params, 1).v

\* a channel that is not ready resolves false (l.240, l.263, l.286)
notReady(X, api) ==
  Chan(St(X.W, [X.C EXCEPT !.promises = Append(@, Settled(api, "resolved", Bool(FALSE)))]),
       X.ch)

\* fault variant of ringing: the status becomes ringing whatever it was
ringingForces(X, params) ==
  IF ~X.ch.ready THEN notReady(X, "ringing")
  ELSE Chan(dispatch(St(X.W, X.C), masquerade(X.ch, <<"c","a","l","l",".","r","i","n","g","i","n","g">>, params)),
            [X.ch EXCEPT !.status = Str(<<"r","i","n","g","i","n","g">>)])

\* channel.ringing(params) (l.239-252)
ringing(X, params) ==
  IF ~X.ch.ready THEN notReady(X, "ringing")
  ELSE Chan(dispatch(St(X.W, X.C), masquerade(X.ch, <<"c","a","l","l",".","r","i","n","g","i","n","g">>, params)),
            [X.ch EXCEPT !.status = IF @ = Str(<<"a","n","s","w","e","r","e","d">>) THEN Str(<<"a","n","s","w","e","r","e","d">>)
                                    ELSE Str(<<"r","i","n","g","i","n","g">>)])

\* channel.progress(params) (l.262-275)
progress(X, params) ==
  IF ~X.ch.ready THEN notReady(X, "progress")
  ELSE Chan(dispatch(St(X.W, X.C), masquerade(X.ch, <<"c","a","l","l",".","p","r","o","g","r","e","s","s">>, params)),
            [X.ch EXCEPT !.status = IF @ = Str(<<"a","n","s","w","e","r","e","d">>) THEN Str(<<"a","n","s","w","e","r","e","d">>)
                                    ELSE Str(<<"r","i","n","g","i","n","g">>)])

\* channel.answered(params) (l.285-298)
answered(X, params) ==
  IF ~X.ch.ready THEN notReady(X, "answered")
  ELSE Chan(dispatch(St(X.W, X.C), masquerade(X.ch, <<"c","a","l","l",".","a","n","s","w","e","r","e","d">>, params)),
            [X.ch EXCEPT !.status = Str(<<"a","n","s","w","e","r","e","d">>)])

\* channel.hangup(reason) (l.308-311)
hangup(X, reason) ==
  Chan(dispatch(St(X.W, X.C),
                YateMessage(Str(<<"c","a","l","l",".","d","r","o","p">>),
                            Obj(<<P(<<"r","e","a","s","o","n">>, reason), P(<<"i","d">>, X.ch.id)>>)).v),
       [X.ch EXCEPT !.status = Str(<<"d","r","o","p","p","e","d">>)])

(***************************************************************************)
(* The router: _read (index.js 1421-1497)                                  *)
(***************************************************************************)
\* RegExp(pattern).test(str) for the patterns made of literal characters, the
\* wildcard ".", a leading "^" and a trailing "$"
RegExpTest(pattern, str) ==
  LET atStart == Len(pattern) > 0 /\ pattern[1] = "^"
      atEnd   == Len(pattern) > 0 /\ pattern[Len(pattern)] = "$"
      body    == SubSeq(pattern, IF atStart THEN 2 ELSE 1,
                        IF atEnd THEN Len(pattern) - 1 ELSE Len(pattern))
  IN  \E o \in 0..(Len(str) - Len(body)) :
        /\ \A j \in 1..Len(body) : body[j] = "." \/ body[j] = str[o + j]
        /\ atStart => o = 0
        /\ atEnd => o + Len(body) = Len(str)

\* the test _read makes on one element of _installs or _watches (l.1434-1441)
selects(item, msg) ==
  /\ item.live
  /\ isStr(GetProp(msg, A_name), item.name)
  /\ IF item.filterName.t = "string" /\ item.filterValue.t = "string"
     THEN /\ InMsg(msg, item.filterName.v)
          /\ RegExpTest(item.filterValue.v, toString(GetProp(msg, item.filterName.v)))
     ELSE TRUE

\* the slots of list whose handler _read calls for msg, in the order of forEach
RECURSIVE selected(_, _, _)
selected(list, msg, i) ==
  IF i > Len(list) THEN <<>>
  ELSE (IF selects(list[i], msg) THEN <<i>> ELSE <<>>) \o selected(list, msg, i + 1)

\* the invocations of one message
callsOf(inv, m) == {i \in 1..Len(inv) : inv[i].m = m}

\* the then-callback of Promise.all (l.1446-1454) for the inbox message m
joined(W, box, inv, m) ==
  LET msg == IF \E i \in callsOf(inv, m) : isTrue(inv[i].res)
             THEN Put(box[m].msg, K_handled, Bool(TRUE)) ELSE box[m].msg
      a   == _acknowledge(W, msg, m)
  IN  [W |-> a.W, inbox |-> [box EXCEPT ![m].msg = a.msg, ![m].all = "fulfilled"]]

\* the state _read starts from: the writer, the listeners' state, the inbox and
\* the invocations
Routing == [W |-> Writer, C |-> Corr, inbox |-> inbox, invoked |-> invoked,
            alive |-> TRUE, ch |-> chan]

\* case "incoming" (l.1429-1458) for the slots sel of the handlers selected;
\* sync > 0: the sync-th handler called throws.  Promise.all of no promise is
\* fulfilled at once.
incoming(msg, line, sync, sel) ==
  LET m   == Len(inbox) + 1
      inv == invoked \o [j \in 1..(IF sync > 0 THEN sync - 1 ELSE Len(sel)) |->
                           [m |-> m, slot |-> sel[j],
                            h |-> installs[sel[j]].handler,
                            st |-> "pending", res |-> undefined]]
      box == Append(inbox, [msg |-> msg, raw |-> line,
                            reg |-> installs, mutated |-> FALSE,
                            all |-> IF sync > 0 THEN "aborted" ELSE "pending"])
  IN  IF sync > 0
      THEN [Routing EXCEPT !.inbox = box, !.invoked = inv, !.alive = FALSE]
      ELSE IF Len(sel) > 0
      THEN [Routing EXCEPT !.inbox = box, !.invoked = inv]
      ELSE joined(Writer, box, inv, m)
           @@ [C |-> Corr, invoked |-> inv, alive |-> TRUE, ch |-> chan]

\* the handlers of the channel among the handlers of _watches
ChanHandlers == {"chan.noop", "chan.hangup"} \cup {CallToHandlers[k] : k \in 1..Len(CallToHandlers)}

\* a handler of the channel called with msg
chanHandler(X, h, msg) ==
  IF h = "chan.hangup" THEN hangupHandler(X)
  ELSE IF \E k \in 1..Len(X.ch.calls) : CallToHandlers[k] = h
  THEN callToHandler(X, CHOOSE k \in 1..Len(X.ch.calls) : CallToHandlers[k] = h, msg)
  ELSE X

\* case "notification" (l.1459-1472): the forEach over _watches from the slot
\* i on; a slot emptied by an earlier handler is skipped; the handlers of the
\* channel change the state, a call of a handler of the application is
\* recorded in inv
RECURSIVE notification(_, _, _, _)
notification(X, msg, i, inv) ==
  IF i > Len(X.C.watches) THEN [W |-> X.W, C |-> X.C, ch |-> X.ch, invoked |-> inv]
  ELSE IF ~selects(X.C.watches[i], msg) THEN notification(X, msg, i + 1, inv)
  ELSE IF X.C.watches[i].handler \in ChanHandlers
  THEN notification(chanHandler(X, X.C.watches[i].handler, msg), msg, i + 1, inv)
  ELSE notification(X, msg, i + 1,
                    Append(inv, [m |-> 0, slot |-> i, h |-> X.C.watches[i].handler,
                                 st |-> "notified", res |-> undefined]))

\* the state of the router after the handlers of a notification have run
watched(X) ==
  [Routing EXCEPT !.W = X.W, !.C = X.C, !.ch = X.ch, !.invoked = X.invoked]

\* the switch of _read (l.1427-1496) on the outcome r of _parseMessage
route(r, line, sync) ==
  IF ~r.ok THEN [Routing EXCEPT !.alive = FALSE]
  ELSE
  LET msg  == r.v
      ty   == Get(msg, K_type)
      name == toString(Get(msg, K_name))
  IN
  CASE isStr(ty, <<"a","n","s","w","e","r">>) ->
         [Routing EXCEPT !.C = emit(Corr, <<"_answer", toString(Get(msg, K_id))>>, msg)]
    [] isStr(ty, <<"i","n","c","o","m","i","n","g">>) ->
         incoming(msg, line, sync, selected(installs, msg, 1))
    [] isStr(ty, <<"n","o","t","i","f","i","c","a","t","i","o","n">>) ->
         IF sync > 0 THEN [Routing EXCEPT !.alive = FALSE]
         ELSE watched(notification(Chan(Routing, chan), msg, 1, invoked))
    [] isStr(ty, <<"i","n","s","t","a","l","l">>) ->
         [Routing EXCEPT !.C = emit(Corr, <<"_install", name>>, Get(msg, K_success))]
    [] isStr(ty, <<"u","n","i","n","s","t","a","l","l">>) ->
         [Routing EXCEPT !.C = emit(Corr, <<"_uninstall", name>>, Get(msg, K_success))]
    [] isStr(ty, <<"w","a","t","c","h">>) ->
         [Routing EXCEPT !.C = emit(Corr, <<"_watch", name>>, Get(msg, K_success))]
    [] isStr(ty, <<"u","n","w","a","t","c","h">>) ->
         [Routing EXCEPT !.C = emit(Corr, <<"_unwatch", name>>, Get(msg, K_success))]
    [] isStr(ty, <<"s","e","t","l","o","c","a","l">>) ->
         [Routing EXCEPT !.C = emit(Corr, <<"_setlocal", name>>, msg)]
    [] OTHER -> Routing

\* the state _read(line) leaves
read(line, sync) == route(_parseMessage(line), line, sync)

\* how many handlers _read calls for the outcome r of _parseMessage
handlersFor(r) ==
  IF ~r.ok THEN 0
  ELSE IF isStr(Get(r.v, K_type), <<"i","n","c","o","m","i","n","g">>) THEN Len(selected(installs, r.v, 1))
  ELSE IF isStr(Get(r.v, K_type), <<"n","o","t","i","f","i","c","a","t","i","o","n">>) THEN Len(selected(watches, r.v, 1))
  ELSE 0
selectedCount(line) == handlersFor(_parseMessage(line))

(***************************************************************************)
(* Initial state: after new Yate({host}) or new Yate({host, reconnect:     *)
(* false}) (index.js 493-551): the constructor has called                  *)
(* setlocal("trackparam", trackname) and, with reconnect, setlocal(        *)
(* "restart", true), both parked because nothing is connected yet.         *)
(***************************************************************************)
Blank(rc) ==
  St([connected |-> FALSE, reconnect |-> rc, timer |-> "none", epoch |-> 0,
      wire |-> <<>>, parked |-> <<>>, nops |-> 0],
     [installs |-> <<>>, watches |-> <<>>, setlocals |-> <<>>, promises |-> <<>>,
      timers |-> {}, waiters |-> <<>>])

Constructed(rc) ==
  LET S1 == setlocal(Blank(rc), Str(<<"t","r","a","c","k","p","a","r","a","m">>), Str(_TRACKNAME)) IN
  IF rc THEN setlocal(S1, Str(<<"r","e","s","t","a","r","t">>), Bool(rc)) ELSE S1

Init ==
  \E rc \in BOOLEAN :
    LET S == Constructed(rc) IN
    /\ connected = S.W.connected
    /\ reconnect = rc
    /\ first_run = TRUE
    /\ timer = S.W.timer
    /\ sock = "none"
    /\ rl = FALSE
    /\ initThen = "none"
    /\ epoch = 0
    /\ signals = {}
    /\ wire = S.W.wire
    /\ parked = S.W.parked
    /\ nops = S.W.nops
    /\ setlocals = S.C.setlocals
    /\ installs = S.C.installs
    /\ watches = S.C.watches
    /\ waiters = S.C.waiters
    /\ promises = S.C.promises
    /\ timers = S.C.timers
    /\ inbox = <<>>
    /\ invoked = <<>>
    /\ alive = TRUE
    /\ elapsed = {}
    /\ expired = {}
    /\ call = [fn |-> "none"]
    /\ chan = [made |-> FALSE]

(***************************************************************************)
(* Transport actions: init and the socket events (index.js 620-697)        *)
(***************************************************************************)
\* the network branch of init() (l.635-696); then is what the caller chains
initNetwork(then) ==
  /\ timer' = "none"
  /\ sock' = "connecting"
  /\ rl' = FALSE
  /\ initThen' = then
  /\ signals' = {}
  /\ UNCHANGED <<connected, reconnect, call, chan, first_run, epoch, outbound, registry,
                 requests, router>>

\* the application calls yate.init()
AppInit ==
  /\ alive /\ sock = "none" /\ ~connected
  /\ initNetwork("app")

\* the socket emits "connect"/"ready" (l.674-688)
SocketConnect ==
  /\ alive /\ sock = "connecting"
  /\ sock' = "open"
  /\ timer' = "ready"
  /\ first_run' = FALSE
  /\ UNCHANGED <<connected, reconnect, call, chan, rl, initThen, epoch, signals, outbound,
                 registry,
                 requests, router>>

\* the 500 ms timer of the connect handler fires (l.676-684), then the
\* continuation of init() runs: _restore after a reconnect (l.648, l.664)
SocketReady ==
  /\ alive /\ timer = "ready"
  /\ LET W0 == [Writer EXCEPT !.connected = TRUE, !.timer = "none", !.epoch = @ + 1]
         W1 == _connect(W0, <<"g","l","o","b","a","l">>, Str(_TRACKNAME), Str(<<"d","a","t","a">>))
         W2 == emitConnect(W1)
         W3 == IF initThen = "restore" THEN _restore(W2, setlocals, installs, watches)
               ELSE W2
     IN  SetWriter(W3)
  /\ epoch' = epoch + 1
  /\ rl' = TRUE
  /\ first_run' = IF initThen = "first" THEN FALSE ELSE first_run
  /\ initThen' = "none"
  /\ UNCHANGED <<reconnect, call, chan, sock, signals, registry, requests, router>>

\* fault variant of the "end" handler: the timer of the connect handler is not
\* cleared
SocketEndKeepsTimer ==
  /\ alive /\ sock = "open"
  /\ connected' = FALSE
  /\ timer' = IF timer = "ready" THEN timer ELSE IF reconnect THEN "retry" ELSE "none"
  /\ sock' = "ended"
  /\ rl' = FALSE
  /\ signals' = signals \cup {"_disconnect"}
  /\ UNCHANGED <<reconnect, call, chan, first_run, initThen, epoch, outbound, registry,
                 requests, router>>

\* the socket emits "end" (l.639-653)
SocketEnd ==
  /\ alive /\ sock = "open"
  /\ connected' = FALSE
  /\ timer' = IF reconnect THEN "retry" ELSE "none"
  /\ sock' = "ended"
  /\ rl' = FALSE
  /\ signals' = signals \cup {"_disconnect"}
  /\ UNCHANGED <<reconnect, call, chan, first_run, initThen, epoch, outbound, registry,
                 requests, router>>

\* the socket emits "error" (l.655-670)
SocketError ==
  /\ alive /\ sock \in {"connecting", "open", "ended"}
  /\ connected' = FALSE
  /\ timer' = IF reconnect THEN "retry" ELSE "none"
  /\ sock' = "failed"
  /\ rl' = FALSE
  /\ signals' = IF reconnect THEN signals ELSE signals \cup {"_error"}
  /\ UNCHANGED <<reconnect, call, chan, first_run, initThen, epoch, outbound, registry,
                 requests, router>>

\* the reconnect timer fires (l.644-650, l.660-666, l.1512)
ReconnectTimer ==
  /\ alive /\ timer \in {"retry", "rewrite"}
  /\ LET then == IF timer = "retry" /\ first_run THEN "first" ELSE "restore" IN
     IF connected
     THEN \* init() resolves false at once (l.621) and the continuation runs
          /\ SetWriter(IF then = "restore"
                       THEN _restore([Writer EXCEPT !.timer = "none"], setlocals,
                                     installs, watches)
                       ELSE [Writer EXCEPT !.timer = "none"])
          /\ first_run' = IF then = "first" THEN FALSE ELSE first_run
          /\ UNCHANGED <<reconnect, call, chan, sock, rl, initThen, epoch, signals,
                         registry, requests, router>>
     ELSE initNetwork(then)

(***************************************************************************)
(* Application and engine actions                                          *)
(***************************************************************************)
\* the state [W, C] of a request put back into the variables
Apply(S) ==
  /\ SetWriter(S.W)
  /\ SetCorr(S.C)
  /\ UNCHANGED <<reconnect, call, chan, first_run, sock, rl, initThen, epoch, signals, router>>

Here == St(Writer, Corr)

N_route   == <<"c","a","l","l",".","r","o","u","t","e">>
N_execute == <<"c","a","l","l",".","e","x","e","c","u","t","e">>

\* yate.install(handler, name, prio, filter, fvalue)
Install(a) ==
  /\ alive
  /\ Apply(install(Here, a[1], a[2], a[3], a[4], a[5]))

\* yate.uninstall(...args)
Uninstall(args) ==
  /\ alive
  /\ Apply(uninstall(Here, args))

\* yate.watch(handler, name, filterName, filterValue)
Watch(a) ==
  /\ alive
  /\ Apply(watch(Here, a[1], a[2], a[3], a[4]))

\* yate.unwatch(...args)
Unwatch(args) ==
  /\ alive
  /\ Apply(unwatch(Here, args))

\* yate.setlocal(name, value)
Setlocal(name, value) ==
  /\ alive
  /\ Apply(setlocal(Here, name, value))

\* the timeout of a setlocal fires
SetlocalTimeout(p) ==
  /\ alive /\ p \in timers /\ promises[p].api = "setlocal"
  /\ SetCorr(setlocalTimeout(Corr, p))
  /\ expired' = expired \cup {p}
  /\ UNCHANGED <<transport, call, chan, outbound, inbox, invoked, alive, elapsed>>

\* yate.getEnvironment() on a connected instance; the promises setlocal
\* returns are dropped, each one rejected is an unhandled rejection and crash
\* tells whether this Node version ends the process on it
GetEnvironment(crash) ==
  /\ alive /\ connected
  /\ \A p \in 1..Len(promises) : promises[p].api # "getEnvironment"
  /\ SetWriter(getEnvironment(Here).W)
  /\ SetCorr(getEnvironment(Here).C)
  /\ alive' = IF \E p \in 1..Len(promises') : promises'[p].state = "rejected"
              THEN ~crash ELSE alive
  /\ UNCHANGED <<reconnect, call, chan, first_run, sock, rl, initThen, epoch, signals,
                 inbox, invoked, elapsed, expired>>

\* yate.dispatch(msg)
Dispatch(msg) ==
  /\ alive
  /\ Apply(dispatch(Here, msg))

\* the timeout of a dispatch fires
DispatchTimeout(p) ==
  /\ alive /\ p \in timers /\ promises[p].api = "dispatch"
  /\ SetCorr(dispatchTimeout(Corr, p))
  /\ expired' = expired \cup {p}
  /\ UNCHANGED <<transport, call, chan, outbound, inbox, invoked, alive, elapsed>>

\* yate.enqueue(msg)
Enqueue(msg) ==
  /\ alive
  /\ Apply(enqueue(Here, msg))

\* yate.output(text)
Output(text) ==
  /\ alive
  /\ SetWriter(outputText(Writer, text))
  /\ UNCHANGED <<reconnect, call, chan, first_run, sock, rl, initThen, epoch, signals, registry,
                 requests, router>>

\* this._write(line) called by a request of the application (l.1502-1521);
\* throws tells whether out.write throws (l.1506-1508)
WriteLine(line, throws) ==
  /\ alive
  /\ SetWriter(write([Writer EXCEPT !.nops = @ + 1],
                     [fn |-> "write", line |-> line, tag |-> [k |-> "app"],
                      op |-> nops + 1], throws))
  /\ UNCHANGED <<reconnect, call, chan, first_run, sock, rl, initThen, epoch, signals, registry,
                 requests, router>>

\* the state N of the router put back into the variables
SetRouting(N) ==
  /\ SetWriter(N.W)
  /\ SetCorr(N.C)
  /\ inbox' = N.inbox
  /\ invoked' = N.invoked
  /\ alive' = N.alive
  /\ chan' = N.ch

\* the line reader hands one line of the engine to _read
ReadLine(line, sync) ==
  /\ alive /\ rl /\ sock = "open"
  /\ sync \in 0..selectedCount(line)
  /\ SetRouting(read(line, sync))
  /\ UNCHANGED <<reconnect, call, first_run, sock, rl, initThen, epoch, signals,
                 elapsed, expired>>

\* the values a handler's promise resolves with
HandlerResults == {Bool(TRUE), Bool(FALSE), undefined}

\* the promise of the invocation i resolves with v; when it is the last one
\* of its message the then-callback of Promise.all runs
HandlerResolves(i, v) ==
  /\ alive /\ i \in 1..Len(invoked) /\ invoked[i].st = "pending"
  /\ LET inv == [invoked EXCEPT ![i].st = "resolved", ![i].res = v]
         m   == invoked[i].m
     IN  /\ invoked' = inv
         /\ IF inbox[m].all = "pending"
               /\ \A j \in callsOf(inv, m) : inv[j].st = "resolved"
            THEN LET J == joined(Writer, inbox, inv, m) IN
                 SetWriter(J.W) /\ inbox' = J.inbox
            ELSE UNCHANGED <<connected, timer, outbound, inbox>>
  /\ UNCHANGED <<reconnect, call, chan, first_run, sock, rl, initThen, epoch, signals, registry,
                 requests, alive, elapsed,
                 expired>>

\* the promise of the invocation i is rejected: Promise.all rejects and has no
\* rejection handler; crash tells whether this Node version ends the process
\* on an unhandled rejection
HandlerRejects(i, crash) ==
  /\ alive /\ i \in 1..Len(invoked) /\ invoked[i].st = "pending"
  /\ invoked' = [invoked EXCEPT ![i].st = "rejected"]
  /\ IF inbox[invoked[i].m].all = "pending"
     THEN /\ inbox' = [inbox EXCEPT ![invoked[i].m].all = "rejected"]
          /\ alive' = ~crash
     ELSE UNCHANGED <<inbox, alive>>
  /\ UNCHANGED <<transport, call, chan, outbound, registry, requests, elapsed, expired>>

\* a handler that has not returned yet calls message.retValue(value)
HandlerSetsRetValue(i, value) ==
  /\ alive /\ i \in 1..Len(invoked) /\ invoked[i].st = "pending"
  /\ ~inbox[invoked[i].m].mutated
  /\ inbox' = [inbox EXCEPT ![invoked[i].m].msg = retValue(@, value),
                            ![invoked[i].m].mutated = TRUE]
  /\ UNCHANGED <<transport, call, chan, outbound, registry, requests, invoked, alive, elapsed,
                 expired>>

\* yate.acknowledge(msg) for a message the application holds (l.1010-1017)
AppAcknowledge(m) ==
  /\ alive /\ m \in 1..Len(inbox)
  /\ LET msg == inbox[m].msg IN
     IF Has(msg, K_id) /\ Has(msg, K_name) /\ Has(msg, K_time) /\ Has(msg, K_type)
        /\ isStr(Get(msg, K_type), <<"i","n","c","o","m","i","n","g">>)
     THEN LET a == _acknowledge(Writer, msg, m) IN
          SetWriter(a.W) /\ inbox' = [inbox EXCEPT ![m].msg = a.msg]
     ELSE UNCHANGED <<connected, timer, outbound, inbox>>
  /\ UNCHANGED <<reconnect, call, chan, first_run, sock, rl, initThen, epoch, signals, registry,
                 requests, invoked, alive, elapsed, expired>>

\* acknowledge_timeout elapses for an incoming message: _read has armed no
\* timer for it (l.1444-1457), so nothing runs
AckDeadline(m) ==
  /\ alive /\ m \in 1..Len(inbox) /\ m \notin elapsed
  /\ elapsed' = elapsed \cup {m}
  /\ UNCHANGED <<transport, call, chan, outbound, registry, requests, inbox, invoked, alive,
                 expired>>

\* dispatch_timeout elapses after an install, uninstall, watch or unwatch call
\* that is waiting for its reply: these calls arm no timer (l.1084-1089,
\* l.1166-1168, l.1221-1226, l.1286-1288), so nothing runs
ReplyDeadline(p) ==
  /\ alive /\ p \in 1..Len(promises) /\ p \notin expired
  /\ promises[p].api \in {"install", "uninstall", "watch", "unwatch"}
  /\ promises[p].state = "pending"
  /\ expired' = expired \cup {p}
  /\ UNCHANGED <<transport, call, chan, outbound, registry, requests, inbox, invoked, alive,
                 elapsed>>

(***************************************************************************)
(* Channel actions                                                         *)
(***************************************************************************)
\* the state [W, C, ch] of a channel operation put back into the variables
SetChan(X) ==
  /\ SetWriter(X.W)
  /\ SetCorr(X.C)
  /\ chan' = X.ch
  /\ UNCHANGED <<reconnect, call, first_run, sock, rl, initThen, epoch, signals, router>>

Now3 == Chan(Here, chan)

\* new YateChannel(message) in a handler of the application
NewChannel(message) ==
  /\ alive /\ connected /\ ~chan.made
  /\ isStr(GetProp(message, A_name), <<"c","a","l","l",".","r","o","u","t","e">>)
       \/ isStr(GetProp(message, A_name), <<"c","a","l","l",".","e","x","e","c","u","t","e">>)
  /\ ~isStr(Get(message, K_type), <<"o","u","t","g","o","i","n","g">>)
  /\ SetChan(YateChannel(Here, message))

\* channel.watch(handler, name) (l.323-326)
ChanWatch(handler, name) ==
  /\ alive /\ chan.made
  /\ SetChan(Chan(watch(Here, handler, name, Str(<<"i","d">>), chan.id), chan))

\* channel.install(handler, name) with the default priority 80 (l.338-341)
ChanInstall(handler, name) ==
  /\ alive /\ chan.made
  /\ SetChan(Chan(install(Here, handler, name, Num(80), Str(<<"i","d">>), chan.id), chan))

\* channel.callTo(dst, params) when Date.now() is t; the clock does not go back
CallTo(dst, params, t) ==
  /\ alive /\ chan.made
  /\ \A k \in 1..Len(chan.calls) : chan.calls[k].now <= t
  /\ SetChan(callTo(Now3, dst, params, t))

\* the timer of the callTo k fires
CallTimer(k) ==
  /\ alive /\ chan.made /\ k \in 1..Len(chan.calls) /\ chan.calls[k].timer
  /\ SetChan(callToTimeout(Now3, k))

\* the dispatch of the tone callTo k has resolved: its then-callback runs
CallToThen(k) ==
  /\ alive /\ chan.made /\ k \in 1..Len(chan.calls) /\ chan.calls[k].waits
  /\ promises[chan.calls[k].p + 1].state = "resolved"
  /\ SetChan(callToThen(Now3, k, promises[chan.calls[k].p + 1].value.v))

\* channel.reset(message)
Reset(message) ==
  /\ alive /\ chan.made
  /\ SetChan(reset(Now3, message))

\* channel.ringing(params)
ChanRinging(params) ==
  /\ alive /\ chan.made
  /\ SetChan(ringing(Now3, params))

\* channel.progress(params)
ChanProgress(params) ==
  /\ alive /\ chan.made
  /\ SetChan(progress(Now3, params))

\* channel.answered(params)
ChanAnswered(params) ==
  /\ alive /\ chan.made
  /\ SetChan(answered(Now3, params))

\* channel.hangup(reason)
ChanHangup(reason) ==
  /\ alive /\ chan.made
  /\ SetChan(hangup(Now3, reason))

(***************************************************************************)
(* The next-state relation of the whole model.  The inputs of the          *)
(* application and of the engine are drawn from the sets below.            *)
(***************************************************************************)
F_called == <<"c","a","l","l","e","d">>
N_timer  == <<"e","n","g","i","n","e",".","t","i","m","e","r">>

\* install calls: unfiltered, filtered on the parameter called, filtered on
\* the parameter name
I_route   == <<Fun("h1"), Str(N_route), Num(100), undefined, undefined>>
I_called  == <<Fun("h2"), Str(N_route), Num(100), Str(F_called), Str(<<"^","9","9">>)>>
I_named   == <<Fun("h3"), Str(N_execute), Num(100), Str(A_name), Str(<<"^","c","a","l","l">>)>>
W_timer   == <<Fun("w1"), Str(N_timer), undefined, undefined>>

\* install calls on call.route: another priority, a filter passed in the place
\* of the priority; a watch call with a filter
I_urgent  == <<Fun("h4"), Str(N_route), Num(50), undefined, undefined>>
I_other   == <<Fun("h5"), Str(N_route), Str(F_called), Str(<<"^","9","9">>), undefined>>
W_filter  == <<Fun("w2"), Str(N_timer), Str(A_time), Str(<<"^","1">>)>>

\* lines of the engine
L_route1234  == <<"%","%",">","m","e","s","s","a","g","e",":","4","3",":","1","2","3",":","c","a","l","l",".","r","o","u","t","e",":","x",":","c","a","l","l","e","d","=","1","2","3","4">>
L_S3         == <<"%","%",">","m","e","s","s","a","g","e",":","4","2",":","1","2","3",":","c","a","l","l",".","r","o","u","t","e",":",":","x",":","c","a","l","l","e","d","=","9","9","9","9">>
L_handled    == <<"%","%",">","m","e","s","s","a","g","e",":","4","4",":","1","2","3",":","c","a","l","l",".","r","o","u","t","e",":","x",":","h","a","n","d","l","e","d","=","t","r","u","e">>
L_named      == <<"%","%",">","m","e","s","s","a","g","e",":","4","5",":","1","2","3",":","c","a","l","l",".","r","o","u","t","e",":","x",":","n","a","m","e","=","c","a","l","l",".","e","x","e","c","u","t","e">>
L_installOk  == <<"%","%","<","i","n","s","t","a","l","l",":","1","0","0",":","c","a","l","l",".","r","o","u","t","e",":","t","r","u","e">>
L_installNo  == <<"%","%","<","i","n","s","t","a","l","l",":","1","0","0",":","c","a","l","l",".","r","o","u","t","e",":","f","a","l","s","e">>
L_watchOk    == <<"%","%","<","w","a","t","c","h",":","e","n","g","i","n","e",".","t","i","m","e","r",":","t","r","u","e">>
L_trackOk    == <<"%","%","<","s","e","t","l","o","c","a","l",":","t","r","a","c","k","p","a","r","a","m",":","n","e","x","t","-","y","a","t","e",":","t","r","u","e">>
L_bufsizeOk  == <<"%","%","<","s","e","t","l","o","c","a","l",":","b","u","f","s","i","z","e",":","4","0","9","6",":","t","r","u","e">>
L_answer     == <<"%","%","<","m","e","s","s","a","g","e",":","n","o","w",".","h","r","t","i","m","e",":","t","r","u","e",":","c","a","l","l",".","r","o","u","t","e",":","r","e","t",":","c","a","l","l","e","d","=","9","9","9","9">>
L_watchNo    == <<"%","%","<","w","a","t","c","h",":","e","n","g","i","n","e",".","t","i","m","e","r",":","f","a","l","s","e">>
L_uninstallOk == <<"%","%","<","u","n","i","n","s","t","a","l","l",":","1","0","0",":","c","a","l","l",".","r","o","u","t","e",":","t","r","u","e">>
L_unwatchOk  == <<"%","%","<","u","n","w","a","t","c","h",":","e","n","g","i","n","e",".","t","i","m","e","r",":","t","r","u","e">>
L_bufsizeNo  == <<"%","%","<","s","e","t","l","o","c","a","l",":","b","u","f","s","i","z","e",":","4","0","9","6",":","f","a","l","s","e">>

IncomingLines == {L_route1234, L_S3, L_handled, L_named}
ReplyLines    == {L_installOk, L_installNo, L_watchOk, L_trackOk, L_bufsizeOk}

\* messages the application dispatches: a YateMessage and a plain object
M_route == YateMessage(Str(N_route), Obj(<<P(F_called, Str(<<"9","9","9","9">>))>>)).v
M_plain == <<P(F_called, Str(<<"9","9","9","9">>))>>

(***************************************************************************)
(* Bounds of the model                                                     *)
(***************************************************************************)
MaxConnections == 2   \* connections made ready in a run
MaxPromises    == 4   \* promises returned by the request layer
MaxInbox       == 1   \* incoming messages read
MaxOutputs     == 1   \* lines of yate.output calls
MaxResolves    == 2   \* calls of one promise's resolve function in the registry runs
MaxLen         == 3   \* characters of a string handed to the codec
MaxKeys        == 2   \* keys of a flat parameter map handed to _str2obj
MaxSteps       == 5   \* requests of the application's program in the connection runs

\* the _output calls made so far
outputs ==
  Cardinality({i \in 1..Len(wire) : wire[i].tag.k = "output"})
  + Cardinality({i \in 1..Len(parked) : parked[i].tag.k = "output"})

Reconnect == epoch < MaxConnections /\ ReconnectTimer
Request(A) == Len(promises) < MaxPromises /\ A
Incoming(line, sync) == Len(inbox) < MaxInbox /\ ReadLine(line, sync)

Next ==
  \/ AppInit
  \/ SocketConnect
  \/ SocketReady
  \/ SocketEnd
  \/ SocketError
  \/ Reconnect
  \/ \E a \in {I_route, I_called, I_named} : Request(Install(a))
  \/ \E args \in {<<Str(N_route)>>, <<Fun("h1"), Str(N_route)>>} : Request(Uninstall(args))
  \/ Request(Watch(W_timer))
  \/ \E args \in {<<Str(N_timer)>>, <<>>} : Request(Unwatch(args))
  \/ \E v \in {Str(<<"4","0","9","6">>), undefined} : Request(Setlocal(Str(<<"b","u","f","s","i","z","e">>), v))
  \/ \E p \in timers : SetlocalTimeout(p)
  \/ \E msg \in {M_route, M_plain} : Request(Dispatch(msg))
  \/ \E p \in timers : DispatchTimeout(p)
  \/ \E msg \in {M_route, M_plain} : Request(Enqueue(msg))
  \/ outputs < MaxOutputs /\ Output(<<"h","e","l","l","o">>)
  \/ \E line \in IncomingLines : \E sync \in 0..2 : Incoming(line, sync)
  \/ \E line \in ReplyLines \cup {L_answer} : ReadLine(line, 0)
  \/ \E i \in 1..Len(invoked) : \E v \in HandlerResults : HandlerResolves(i, v)
  \/ \E i \in 1..Len(invoked) : \E crash \in BOOLEAN : HandlerRejects(i, crash)
  \/ \E i \in 1..Len(invoked) : HandlerSetsRetValue(i, Str(<<"t","o","n","e","/","r","i","n","g">>))
  \/ \E m \in 1..Len(inbox) : AppAcknowledge(m)
  \/ \E m \in 1..Len(inbox) : AckDeadline(m)

Spec == Init /\ [][Next]_vars

(***************************************************************************)
(* The acknowledgement runs: one handler, incoming messages, the           *)
(* application acknowledging on its own, the connection dropping and       *)
(* coming back                                                             *)
(***************************************************************************)
NextAck ==
  \/ AppInit
  \/ SocketConnect
  \/ SocketReady
  \/ SocketEnd
  \/ Reconnect
  \/ installs = <<>> /\ Install(I_route)
  \/ \E line \in {L_route1234, L_S3} : Incoming(line, 0)
  \/ \E i \in 1..Len(invoked) : \E v \in BOOLEAN : HandlerResolves(i, Bool(v))
  \/ \E m \in 1..Len(inbox) : AppAcknowledge(m)

SpecAck == Init /\ [][NextAck]_vars

(***************************************************************************)
(* The router runs: one connection, the application installs its three     *)
(* handlers one after the other, the engine sends incoming messages, the   *)
(* handlers resolve, reject or throw                                       *)
(***************************************************************************)
RouterInstalls == <<I_route, I_called, I_named>>

NextRouter ==
  \/ AppInit
  \/ SocketConnect
  \/ SocketReady
  \/ Len(installs) < Len(RouterInstalls) /\ Install(RouterInstalls[Len(installs) + 1])
  \/ \E line \in IncomingLines : \E sync \in 0..1 : Incoming(line, sync)
  \/ \E i \in 1..Len(invoked) : \E v \in HandlerResults : HandlerResolves(i, v)
  \/ \E i \in 1..Len(invoked) : \E crash \in BOOLEAN : HandlerRejects(i, crash)
  \/ \E i \in 1..Len(invoked) : HandlerSetsRetValue(i, Str(<<"t","o","n","e","/","r","i","n","g">>))
  \/ \E m \in 1..Len(inbox) : AckDeadline(m)

SpecRouter == Init /\ [][NextRouter]_vars

(***************************************************************************)
(* The connection runs: the application makes the requests of its program  *)
(* one after the other, the engine replies, the connection drops and       *)
(* comes back                                                              *)
(***************************************************************************)
ConnProgram == <<"install", "watch", "output", "setlocal", "uninstall">>

\* the requests of the program made so far
made == Len(promises) + outputs - (IF reconnect THEN 2 ELSE 1)

\* the next request of the program
ProgramStep ==
  /\ made < MaxSteps /\ made < Len(ConnProgram)
  /\ LET r == ConnProgram[made + 1] IN
     CASE r = "install"   -> Install(I_route)
       [] r = "watch"     -> Watch(W_timer)
       [] r = "output"    -> Output(<<"h","e","l","l","o">>)
       [] r = "setlocal"  -> Setlocal(Str(<<"b","u","f","s","i","z","e">>), Str(<<"4","0","9","6">>))
       [] OTHER           -> Uninstall(<<Str(N_route)>>)

NextConn ==
  \/ AppInit
  \/ SocketConnect
  \/ SocketReady
  \/ SocketEnd
  \/ SocketError
  \/ Reconnect
  \/ ProgramStep
  \/ \E line \in {L_trackOk, L_installNo} : ReadLine(line, 0)

SpecConn == Init /\ [][NextConn]_vars

(***************************************************************************)
(* The dispatch runs: the application dispatches, the engine answers or    *)
(* the dispatch timeout fires                                              *)
(***************************************************************************)
NextDispatch ==
  \/ AppInit
  \/ SocketConnect
  \/ SocketReady
  \/ SocketEnd
  \/ \E msg \in {M_route, M_plain} : Request(Dispatch(msg))
  \/ \E p \in timers : DispatchTimeout(p)
  \/ ReadLine(L_answer, 0)

SpecDispatch == Init /\ [][NextDispatch]_vars

(***************************************************************************)
(* The registry runs: an instance made with reconnect: false, one          *)
(* connection; the application's program makes five calls, each one of the *)
(* calls of its position; the engine replies or lets the deadline pass     *)
(***************************************************************************)
\* the instance made with reconnect: false
InitOnce == Init /\ ~reconnect

RegistryProgram ==
  << {<<"install", I_route>>, <<"watch", W_timer>>},
     {<<"install", I_called>>, <<"watch", W_filter>>},
     {<<"install", I_urgent>>, <<"install", I_other>>,
      <<"unwatch", <<Fun("w1"), Str(N_timer)>> >>},
     {<<"uninstall", <<Str(N_route)>> >>, <<"uninstall", <<Fun("h1"), Str(N_route)>> >>,
      <<"uninstall", <<Str(N_route), Str(F_called), Str(<<"^","9","9">>)>> >>,
      <<"unwatch", <<Str(N_timer)>> >>},
     {<<"install", I_named>>, <<"watch", W_timer>>} >>

RegistryReplies == {L_installOk, L_installNo, L_uninstallOk, L_watchOk, L_watchNo,
                    L_unwatchOk}

\* the next call of the program
RegistryStep(c) ==
  /\ made < MaxSteps /\ made < Len(RegistryProgram)
  /\ c \in RegistryProgram[made + 1]
  /\ CASE c[1] = "install"   -> Install(c[2])
       [] c[1] = "uninstall" -> Uninstall(c[2])
       [] c[1] = "watch"     -> Watch(c[2])
       [] OTHER              -> Unwatch(c[2])

\* the engine's next reply; the listener uninstall leaves on _uninstall,<name>
\* (l.1167, on) resolves its promise again at every later reply
RegistryReply(line) ==
  /\ \A p \in 1..Len(promises) : promises[p].calls < MaxResolves
  /\ ReadLine(line, 0)

RegistryCalls == UNION {RegistryProgram[i] : i \in 1..Len(RegistryProgram)}

NextRegistry ==
  \/ AppInit
  \/ SocketConnect
  \/ SocketReady
  \/ \E c \in RegistryCalls : RegistryStep(c)
  \/ \E line \in RegistryReplies : RegistryReply(line)

SpecRegistry == InitOnce /\ [][NextRegistry]_vars

(***************************************************************************)
(* The deadline runs: one connection; the application makes requests, the  *)
(* engine replies to some and lets dispatch_timeout pass for the others    *)
(***************************************************************************)
NextDeadline ==
  \/ AppInit
  \/ SocketConnect
  \/ SocketReady
  \/ Request(Install(I_route))
  \/ Request(Uninstall(<<Str(N_route)>>))
  \/ Request(Watch(W_timer))
  \/ Request(Unwatch(<<Str(N_timer)>>))
  \/ \E line \in {L_installOk, L_uninstallOk, L_watchOk, L_trackOk} : RegistryReply(line)
  \/ \E p \in 1..Len(promises) : ReplyDeadline(p)
  \/ \E p \in timers : SetlocalTimeout(p)

SpecDeadline == InitOnce /\ [][NextDeadline]_vars

(***************************************************************************)
(* The setlocal runs: one connection; the application sets and reads       *)
(* bufsize, the engine replies or the timeout fires                        *)
(***************************************************************************)
LocalValues  == {Str(<<"4","0","9","6">>), undefined}
LocalReplies == {L_bufsizeOk, L_bufsizeNo, L_trackOk}

NextLocal ==
  \/ AppInit
  \/ SocketConnect
  \/ SocketReady
  \/ \E v \in LocalValues : Request(Setlocal(Str(<<"b","u","f","s","i","z","e">>), v))
  \/ \E p \in timers : SetlocalTimeout(p)
  \/ \E line \in LocalReplies : ReadLine(line, 0)

SpecLocal == InitOnce /\ [][NextLocal]_vars

(***************************************************************************)
(* The environment runs: one connection; the application reads             *)
(* engine.version and calls getEnvironment, the engine answers the reads   *)
(***************************************************************************)
L_versionOk == <<"%","%","<","s","e","t","l","o","c","a","l",":","e","n","g","i","n","e",".","v","e","r","s","i","o","n",":","6",".","4",".","1",":","t","r","u","e">>
EnvReplies  == {L_versionOk, L_trackOk}

NextEnv ==
  \/ AppInit
  \/ SocketConnect
  \/ SocketReady
  \/ Request(Setlocal(Str(<<"e","n","g","i","n","e",".","v","e","r","s","i","o","n">>), undefined))
  \/ \E crash \in BOOLEAN : GetEnvironment(crash)
  \/ \E p \in timers : SetlocalTimeout(p)
  \/ \E line \in EnvReplies : ReadLine(line, 0)

SpecEnv == InitOnce /\ [][NextEnv]_vars

(***************************************************************************)
(* The channel runs: one connection; the application makes a channel of a  *)
(* call.execute or call.route message, watches and installs through it,    *)
(* calls callTo and reset; the engine notifies, the timers of callTo fire  *)
(***************************************************************************)
MaxCalls == 2   \* calls of callTo
MaxClock == 2   \* values of Date.now() at the calls of callTo

L_execute == <<"%","%","<","m","e","s","s","a","g","e",":",":","t","r","u","e",":","c","a","l","l",".","e","x","e","c","u","t","e",":",":","i","d","=","s","i","p","/","1",":","p","e","e","r","i","d","=","s","i","p","/","2",":","s","t","a","t","u","s","=","a","n","s","w","e","r","e","d">>
L_hangup  == <<"%","%","<","m","e","s","s","a","g","e",":",":","t","r","u","e",":","c","h","a","n",".","h","a","n","g","u","p",":",":","i","d","=","s","i","p","/","1">>
N_hangup  == <<"c","h","a","n",".","h","a","n","g","u","p">>
N_dtmf    == <<"c","h","a","n",".","d","t","m","f">>

\* the chan.notify notification of the targetid made at the time t
L_notify(t) == <<"%","%","<","m","e","s","s","a","g","e",":",":","t","r","u","e",":","c","h","a","n",".","n","o","t","i","f","y",":",":","t","a","r","g","e","t","i","d","=">> \o notifyOf(t)

ChanLines == {L_hangup} \cup {L_notify(t) : t \in 1..MaxClock}

\* the program of the application: it makes the channel, watches, installs
\* and calls callTo twice
ChanProgram ==
  << {<<"new", _parseMessage(L_execute).v>>},
     {<<"chan.watch", Fun("w3"), Str(N_hangup)>>, <<"chan.watch", Fun("w4"), Str(N_dtmf)>>,
      <<"watch", W_timer>>},
     {<<"chan.install", Fun("h6"), Str(N_dtmf)>>, <<"install", I_called>>},
     {<<"callTo", <<>> >>, <<"callTo", <<P(<<"t","i","m","e","o","u","t">>, Num(500))>> >>},
     {<<"callTo", <<>> >>} >>

ChanCalls == UNION {ChanProgram[i] : i \in 1..Len(ChanProgram)}

\* the promises an operation has returned
returned(api) == Cardinality({p \in 1..Len(promises) : promises[p].api = api})

\* the calls of the program made so far: the constructor has called watch
\* twice, a callTo on a ready channel calls watch and enqueue
chanMade ==
  IF ~chan.made THEN 0
  ELSE 1 + returned("install") + returned("callTo")
         + (returned("watch") - 2 - returned("enqueue"))

\* the engine's next notification
Notified(line) == Len(invoked) <= MaxInbox /\ ReadLine(line, 0)

\* the next call of the program
ChanStep(c, t) ==
  /\ chanMade < Len(ChanProgram)
  /\ c \in ChanProgram[chanMade + 1]
  /\ CASE c[1] = "new"          -> t = 1 /\ NewChannel(c[2])
       [] c[1] = "chan.watch"   -> t = 1 /\ ChanWatch(c[2], c[3])
       [] c[1] = "chan.install" -> t = 1 /\ ChanInstall(c[2], c[3])
       [] c[1] = "watch"        -> t = 1 /\ Watch(c[2])
       [] c[1] = "install"      -> t = 1 /\ Install(c[2])
       [] OTHER -> returned("callTo") < MaxCalls
                   /\ CallTo(Str(<<"w","a","v","e","/","p","l","a","y","/","x",".","a","u">>), c[2], t)

NextChan ==
  \/ AppInit
  \/ SocketConnect
  \/ SocketReady
  \/ \E c \in ChanCalls : \E t \in 1..MaxClock : ChanStep(c, t)
  \/ \E k \in 1..MaxCalls : CallTimer(k)
  \/ chan.made /\ chan.resets # {} /\ Reset(Str(<<"c","a","n","c","e","l">>))
  \/ \E line \in ChanLines : Notified(line)

SpecChan == InitOnce /\ [][NextChan]_vars

(***************************************************************************)
(* The codec runs: a string is escaped, the result is unescaped            *)
(***************************************************************************)
\* the characters of the strings: a letter, the delimiter, the escape
\* character, the line feed, NUL, and the letters the escapes are made of
Alphabet == {"a", ":", "%", "^J", "^@", "z", "J"}
Texts == UNION {[1..k -> Alphabet] : k \in 0..MaxLen} \cup {<<"a",":","b","%","c","^J","d">>}

\* _escape(s) is called
Escape(s) ==
  /\ call.fn = "none"
  /\ call' = [fn |-> "_escape", arg |-> s, res |-> _escape(Str(s), ""), of |-> s]
  /\ UNCHANGED <<transport, outbound, registry, requests, router, chan>>

\* _unescape is called with the result of _escape
Unescape ==
  /\ call.fn = "_escape"
  /\ call' = [fn |-> "_unescape", arg |-> call.res, res |-> _unescape(call.res),
              of |-> call.arg]
  /\ UNCHANGED <<transport, outbound, registry, requests, router, chan>>

\* flat parameter maps: dotted keys, none beginning with "_", non-empty values
ParamKeys   == {<<"a">>, <<"b">>, <<"a",".","a">>, <<"a",".","b">>, <<"a",".","b",".","c">>}
ParamValues == {Str(<<"x">>), Str(<<"t","r","u","e">>)}
FlatMaps ==
  UNION {{m \in [1..n -> [k : ParamKeys, v : ParamValues]] :
            \A i, j \in 1..n : i # j => m[i].k # m[j].k} : n \in 0..MaxKeys}

\* _str2obj(P) is called
Str2obj(m) ==
  /\ call.fn = "none"
  /\ call' = [fn |-> "_str2obj", arg |-> m, res |-> _str2obj(m), of |-> m]
  /\ UNCHANGED <<transport, outbound, registry, requests, router, chan>>

\* _obj2str and _par2str are called with the result of _str2obj
Obj2str ==
  /\ call.fn = "_str2obj"
  /\ call.res.ok
  /\ call' = [fn |-> "_obj2str", arg |-> call.res.v, res |-> _obj2str(call.res.v, <<>>),
              str |-> _par2str(call.res.v, FALSE), of |-> call.arg]
  /\ UNCHANGED <<transport, outbound, registry, requests, router, chan>>

\* inbound lines: scenario S2, well-formed lines, an unknown verb, an engine
\* error report, verbs with fewer fields than they need, an empty message name
L_S2 == <<"%","%",">","m","e","s","s","a","g","e",":","0","x","1",".","a","b","c",":","1","7","0","0","0","0","0","0","0","0",":","c","a","l","l",".","r","o","u","t","e",":",":","t","o","n","e","/","r","i","n","g",":","c","a","l","l","e","d","=","9","9","9","9",":","c","a","l","l","e","r","=","1","2","3">>
InboundLines ==
  {L_S2, L_S3, L_installOk, L_answer, L_bufsizeOk,
   <<"h","e","l","l","o">>, <<"E","r","r","o","r"," ","i","n",":"," ","%","%",">","f","o","o">>, <<"%","%",">","m","e","s","s","a","g","e">>, <<"%","%",">","m","e","s","s","a","g","e",":","1",":","2",":","c","a","l","l",".","r","o","u","t","e">>,
   <<"%","%",">","m","e","s","s","a","g","e",":","1",":","2",":",":","x",":","c","a","l","l","e","d","=","1">>, <<"%","%","<","m","e","s","s","a","g","e",":","1",":","t","r","u","e">>, <<"%","%","<","w","a","t","c","h">>,
   <<"%","%","<","i","n","s","t","a","l","l",":","1","0","0">>, <<"%","%","<","s","e","t","l","o","c","a","l",":","b","u","f","s","i","z","e">>, <<>>}

\* _parseMessage(line) is called
Parse(line) ==
  /\ call.fn = "none"
  /\ call' = [fn |-> "_parseMessage", arg |-> line, res |-> _parseMessage(line),
              of |-> line]
  /\ UNCHANGED <<transport, outbound, registry, requests, router, chan>>

NextCodec ==
  \/ \E s \in Texts : Escape(s)
  \/ Unescape
  \/ \E m \in FlatMaps : Str2obj(m)
  \/ Obj2str
  \/ \E line \in InboundLines : Parse(line)

SpecCodec == InitOnce /\ [][NextCodec]_vars

(***************************************************************************)
(* The call control of a channel: ringing, progress, answered and hangup   *)
(* on a channel that is ready (made from a call.execute notification) or   *)
(* not (made from an incoming call.route).                                 *)
(***************************************************************************)
MaxOps == 2   \* operations called on the channel after it is made

L_ring  == <<"%","%","<","m","e","s","s","a","g","e",":",":","t","r","u","e",":","c","a","l","l",".","e","x","e","c","u","t","e",":",":","i","d","=","s","i","p","/","1",":","p","e","e","r","i","d","=","s","i","p","/","2",":","s","t","a","t","u","s","=","i","n","c","o","m","i","n","g">>
L_leg   == <<"%","%",">","m","e","s","s","a","g","e",":","4","2",":","1","2","3",":","c","a","l","l",".","r","o","u","t","e",":",":","x",":","i","d","=","s","i","p","/","1",":","s","t","a","t","u","s","=","i","n","c","o","m","i","n","g">>

CallSeeds == {_parseMessage(L_ring).v, _parseMessage(L_leg).v}
CallOps   == {"ringing", "progress", "answered", "hangup"}

\* the operations called on the channel so far
opsMade ==
  returned("dispatch") + returned("ringing") + returned("progress") + returned("answered")

\* the next call of the application
CallStep(op) ==
  /\ opsMade < MaxOps
  /\ CASE op = "ringing"  -> ChanRinging(<<>>)
       [] op = "progress" -> ChanProgress(<<>>)
       [] op = "answered" -> ChanAnswered(<<>>)
       [] OTHER           -> ChanHangup(Str(<<"b","y","e">>))

NextCall ==
  \/ AppInit
  \/ SocketConnect
  \/ SocketReady
  \/ \E seed \in CallSeeds : NewChannel(seed)
  \/ \E op \in CallOps : CallStep(op)
  \/ Notified(L_hangup)

SpecCall == InitOnce /\ [][NextCall]_vars

(***************************************************************************)
(* The inbound runs: one handler of call.route, one watcher of             *)
(* engine.timer, one dispatch; the engine sends answers, notifications and *)
(* incoming messages, some with parameters whose key begins with "_"       *)
(***************************************************************************)
L_stray   == <<"%","%","<","m","e","s","s","a","g","e",":","7","7",":","t","r","u","e",":","c","a","l","l",".","r","o","u","t","e",":","r","e","t",":","c","a","l","l","e","d","=","9","9","9","9">>
L_tick    == <<"%","%","<","m","e","s","s","a","g","e",":",":","t","r","u","e",":","e","n","g","i","n","e",".","t","i","m","e","r",":",":","t","i","m","e","=","1">>
L_note    == <<"%","%","<","m","e","s","s","a","g","e",":",":","t","r","u","e",":","c","a","l","l",".","r","o","u","t","e",":",":","c","a","l","l","e","d","=","9","9","9","9">>
L_forged  == <<"%","%","<","m","e","s","s","a","g","e",":","7","7",":","t","r","u","e",":","c","a","l","l",".","r","o","u","t","e",":",":","_","t","y","p","e","=","i","n","c","o","m","i","n","g",":","c","a","l","l","e","d","=","9","9","9","9">>
L_typed   == <<"%","%","<","m","e","s","s","a","g","e",":","7","7",":","t","r","u","e",":","e","n","g","i","n","e",".","t","i","m","e","r",":",":","_","t","y","p","e","=","n","o","t","i","f","i","c","a","t","i","o","n">>
L_acked   == <<"%","%",">","m","e","s","s","a","g","e",":","4","6",":","1","2","3",":","c","a","l","l",".","r","o","u","t","e",":",":","_","a","c","k","n","o","w","l","e","d","g","e","d","=","t","r","u","e">>
L_retyped == <<"%","%",">","m","e","s","s","a","g","e",":","4","7",":","1","2","3",":","c","a","l","l",".","r","o","u","t","e",":",":","_","t","y","p","e","=","a","n","s","w","e","r">>
L_renamed == <<"%","%",">","m","e","s","s","a","g","e",":","4","8",":","1","2","3",":","c","a","l","l",".","r","o","u","t","e",":",":","_","i","d","=","7",":","_","n","a","m","e","=","e","n","g","i","n","e",".","t","i","m","e","r">>

WireReplies  == {L_answer, L_stray, L_tick, L_note, L_forged, L_typed}
WireIncoming == {L_S3, L_acked, L_retyped, L_renamed}

\* the engine's next line
Inbound(line) ==
  /\ Len(inbox) < MaxInbox
  /\ Len(invoked) <= MaxInbox
  /\ ReadLine(line, 0)

NextWire ==
  \/ AppInit
  \/ SocketConnect
  \/ SocketReady
  \/ installs = <<>> /\ Install(I_route)
  \/ watches = <<>> /\ Watch(W_timer)
  \/ returned("dispatch") = 0 /\ Dispatch(M_route)
  \/ \E line \in WireReplies \cup WireIncoming : Inbound(line)
  \/ \E i \in 1..Len(invoked) : \E v \in BOOLEAN : HandlerResolves(i, Bool(v))

SpecWire == InitOnce /\ [][NextWire]_vars

(***************************************************************************)
(* The tone runs: callTo for tone/dtmf targets on a ready channel; the     *)
(* engine answers the attach message or the dispatch times out, and the    *)
(* timer of the call fires                                                 *)
(***************************************************************************)
ToneTargets == {<<"t","o","n","e","/","d","t","m","f","/","1">>, <<"t","o","n","e","/","d","t","m","f","s","t","r","/","1">>, <<"t","o","n","e","/","d","t","m","f","s","t","r","/","1","2","3">>}
ToneParams  == {<<>>, <<P(<<"t","i","m","e","o","u","t">>, Num(1000))>>}

NextTone ==
  \/ AppInit
  \/ SocketConnect
  \/ SocketReady
  \/ NewChannel(_parseMessage(L_ring).v)
  \/ \E dst \in ToneTargets : \E params \in ToneParams :
       chan.made /\ Len(chan.calls) < MaxCalls /\ CallTo(Str(dst), params, 1)
  \/ ReadLine(L_answer, 0)
  \/ \E p \in timers : DispatchTimeout(p)
  \/ \E k \in 1..MaxCalls : CallToThen(k)
  \/ \E k \in 1..MaxCalls : CallTimer(k)

SpecTone == InitOnce /\ [][NextTone]_vars

(***************************************************************************)
(* The line runs: the application hands lines to _write while the socket   *)
(* comes and goes, and a write to the transport may throw                  *)
(***************************************************************************)
WriteLines == {<<"%","%",">","w","a","t","c","h",":","e","n","g","i","n","e",".","t","i","m","e","r">>, <<"%","%",">","s","e","t","l","o","c","a","l",":","b","u","f","s","i","z","e",":","4","0","9","6">>}

NextLine ==
  \/ AppInit
  \/ SocketConnect
  \/ SocketReady
  \/ SocketEnd
  \/ SocketError
  \/ Reconnect
  \/ \E line \in WriteLines, throws \in BOOLEAN : nops < MaxSteps /\ WriteLine(line, throws)

SpecLine == Init /\ [][NextLine]_vars

(***************************************************************************)
(* Properties                                                              *)
(***************************************************************************)
\* a line without its newline, and its fields
chomp(line)  == IF endsWithNL(line) THEN SubSeq(line, 1, Len(line) - 1) ELSE line
fields(line) == split(chomp(line), ":")

\* the acknowledgement lines of the inbox message m: written, parked
AckWritten(m) == {i \in 1..Len(wire) : wire[i].tag.k = "ack" /\ wire[i].tag.m = m}
AckParked(m)  == {i \in 1..Len(parked) : parked[i].tag.k = "ack" /\ parked[i].tag.m = m}
AckCount(m)   == Cardinality(AckWritten(m)) + Cardinality(AckParked(m))
AckTexts(m)   == {chomp(wire[i].line) : i \in AckWritten(m)}
                 \cup {chomp(parked[i].line) : i \in AckParked(m)}

\* C1: for every incoming message at most one acknowledgement line is written
\* or parked, whatever the order of handler completions and acknowledge(msg)
\* calls; a line exists exactly when the message is marked acknowledged, and
\* it carries the id of the message.
C1_AcknowledgedOnce ==
  \A m \in 1..Len(inbox) :
    /\ AckCount(m) <= 1
    /\ AckCount(m) = 1 <=> isTrue(Get(inbox[m].msg, K_acknowledged))
    /\ \A t \in AckTexts(m) :
         fields(t)[1] = <<"%","%","<","m","e","s","s","a","g","e">> /\ fields(t)[2] = fields(inbox[m].raw)[2]

\* C1, its case: the application acknowledged a message before its handler
\* resolved true; the router's own acknowledgement, made afterwards, wrote
\* nothing (the one line says handled = false, the message says true).
C1_SecondAttemptSuppressed ==
  \E m \in 1..Len(inbox) :
    /\ inbox[m].all = "fulfilled"
    /\ isTrue(Get(inbox[m].msg, K_handled))
    /\ AckCount(m) = 1
    /\ \E t \in AckTexts(m) : fields(t)[3] = <<"f","a","l","s","e">>

\* C2: an incoming message whose handlers have not all resolved when its
\* acknowledge_timeout has elapsed has been acknowledged.
C2_AcknowledgedByDeadline ==
  \A m \in elapsed : inbox[m].all = "pending" => AckCount(m) = 1

\* C3: when a handler of an incoming message throws or its promise is
\* rejected, the message is acknowledged once with handled = false and the
\* reader is still running.
C3_FailureAcknowledged ==
  \A m \in 1..Len(inbox) :
    inbox[m].all \in {"rejected", "aborted"} =>
      /\ alive
      /\ AckCount(m) = 1
      /\ \A t \in AckTexts(m) : fields(t)[3] = <<"f","a","l","s","e">>

\* the acknowledgement of a line as received: its id, the flag h, its return
\* value and its parameters
RECURSIVE joinFrom(_, _)
joinFrom(f, i) == IF i > Len(f) THEN <<>> ELSE <<":">> \o f[i] \o joinFrom(f, i + 1)
AsReceived(raw, h) ==
  LET f == fields(raw) IN
  <<"%","%","<","m","e","s","s","a","g","e">> \o <<":">> \o f[2] \o <<":">> \o (IF h THEN <<"t","r","u","e">> ELSE <<"f","a","l","s","e">>)
  \o <<":", ":">> \o f[5] \o joinFrom(f, 6)
ResultTrue(m) == \E i \in callsOf(invoked, m) : isTrue(invoked[i].res)
S3_acknowledgement == <<"%","%","<","m","e","s","s","a","g","e",":","4","2",":","t","r","u","e",":",":","x",":","c","a","l","l","e","d","=","9","9","9","9">>

\* C4: when the handlers of an incoming message have resolved without
\* changing it, the acknowledgement says handled = true iff one of them
\* resolved to true and carries the id, the return value and the parameters
\* of the line received; for the line of scenario S3 and a handler returning
\* true it is the line the scenario gives.
C4_AckEchoesResults ==
  \A m \in 1..Len(inbox) :
    inbox[m].all = "fulfilled" /\ ~inbox[m].mutated =>
      /\ AckCount(m) = 1
      /\ \A t \in AckTexts(m) :
           /\ fields(t)[3] = (IF ResultTrue(m) THEN <<"t","r","u","e">> ELSE <<"f","a","l","s","e">>)
           /\ t = (IF inbox[m].raw = L_S3 /\ ResultTrue(m) THEN S3_acknowledgement
                   ELSE AsReceived(inbox[m].raw, ResultTrue(m)))

\* whether the handler entry e is to be called for the line raw: the names
\* agree and, with a filter, the line has the parameter with a matching value
ShouldFire(e, raw) ==
  LET f == fields(raw) IN
  /\ e.name = f[4]
  /\ (e.filterName.t = "string" /\ e.filterValue.t = "string") =>
       \E j \in 6..Len(f) :
         LET pos == indexOf(f[j], "=") IN
         /\ pos > 0
         /\ _unescape(substr(f[j], 0, pos)) = e.filterName.v
         /\ RegExpTest(e.filterValue.v, _unescape(substrFrom(f[j], pos + 1)))

\* C5: of the handlers installed when an incoming message is read, exactly
\* those are called whose name is the name of the message and whose filter,
\* if any, names a parameter of the message with a matching value.
C5_FilterSemantics ==
  \A m \in 1..Len(inbox) :
    inbox[m].all # "aborted" =>
      \A s \in 1..Len(inbox[m].reg) :
        inbox[m].reg[s].live =>
          ((\E i \in callsOf(invoked, m) : invoked[i].slot = s)
           <=> ShouldFire(inbox[m].reg[s], inbox[m].raw))

\* the operation number of the handshake of connection e
IsHandshake(e) == e.tag.k = "connect"
HandshakeOp(e) ==
  LET c == CHOOSE c \in 1..Len(wire) : IsHandshake(wire[c]) /\ wire[c].epoch = e
  IN  wire[c].op
\* the line at position j of wire was parked before its connection was ready
WasParked(j) ==
  \E c \in 1..Len(wire) :
    IsHandshake(wire[c]) /\ wire[c].epoch = wire[j].epoch /\ wire[j].op < wire[c].op

C7_ReplayBeforeParked ==
  \A i, j \in 1..Len(wire) :
    /\ wire[i].tag.k = "restore"
    /\ wire[j].tag.k \in {"app", "output", "ack"}
    /\ wire[j].epoch = wire[i].epoch
    /\ WasParked(j)
    => i < j

\* what a request line asks for: its verb and the name it carries
Asked(e) ==
  LET f == fields(e.line) IN
  <<f[1], _unescape(IF f[1] = <<"%","%",">","i","n","s","t","a","l","l">> THEN f[3] ELSE f[2])>>
IsReplay(e) == e.tag.k = "restore"

\* the names of the live entries of a registry list, in order, under a verb
RECURSIVE liveFrom(_, _, _)
liveFrom(list, verb, i) ==
  IF i > Len(list) THEN <<>>
  ELSE (IF list[i].live THEN << <<verb, list[i].name>> >> ELSE <<>>)
       \o liveFrom(list, verb, i + 1)
RegistryReplay(sl, ins, wat) ==
  [i \in 1..Len(sl) |-> <<<<"%","%",">","s","e","t","l","o","c","a","l">>, sl[i].name>>]
  \o liveFrom(ins, <<"%","%",">","i","n","s","t","a","l","l">>, 1) \o liveFrom(wat, <<"%","%",">","w","a","t","c","h">>, 1)

\* the step that completes a reconnect: the connection becomes ready and the
\* continuation of init() is _restore
ReconnectCompletes == initThen = "restore" /\ epoch' = epoch + 1
\* the lines that step writes
NewLines == SubSeq(wire', Len(wire) + 1, Len(wire'))

\* C8: the step that completes a reconnect writes the handshake
\* %%>connect:global:<trackname>:data first and, as the lines of _restore, one
\* %%>setlocal line per row of the setlocal registry, then one %%>install line
\* per live install entry, then one %%>watch line per live watch entry.
C8_ReplayOrder ==
  [][ReconnectCompletes =>
       /\ Len(NewLines) > 0
       /\ chomp(NewLines[1].line) = <<"%","%",">","c","o","n","n","e","c","t",":","g","l","o","b","a","l",":","n","e","x","t","-","y","a","t","e",":","d","a","t","a">>
       /\ [i \in 1..Len(SelectSeq(NewLines, IsReplay)) |->
             Asked(SelectSeq(NewLines, IsReplay)[i])]
          = RegistryReplay(setlocals', installs', watches')]_vars

\* C8, its case: on the second connection a setlocal, an install and a watch
\* have been replayed, in this order.
C8_ReplayedAllThree ==
  \E i, j, k \in 1..Len(wire) :
    /\ i < j /\ j < k
    /\ wire[i].epoch = 2 /\ wire[j].epoch = 2 /\ wire[k].epoch = 2
    /\ IsReplay(wire[i]) /\ IsReplay(wire[j]) /\ IsReplay(wire[k])
    /\ Asked(wire[i])[1] = <<"%","%",">","s","e","t","l","o","c","a","l">>
    /\ Asked(wire[j])[1] = <<"%","%",">","i","n","s","t","a","l","l">>
    /\ Asked(wire[k])[1] = <<"%","%",">","w","a","t","c","h">>

\* the names asked for with the verb add in lines and not taken back by a
\* later line with the verb remove
NetAsked(lines, add, remove) ==
  {Asked(lines[i])[2] :
     i \in {i \in 1..Len(lines) :
              /\ Asked(lines[i])[1] = add
              /\ \A j \in (i + 1)..Len(lines) :
                   ~(Asked(lines[j])[1] = remove /\ Asked(lines[j])[2] = Asked(lines[i])[2])}}
\* the name/value pairs of the %%>setlocal lines among lines
IsSetlocal(e) == fields(e.line)[1] = <<"%","%",">","s","e","t","l","o","c","a","l">>
Pushed(lines) ==
  {<<fields(lines[i].line)[2], fields(lines[i].line)[3]>> :
     i \in {i \in 1..Len(lines) : IsSetlocal(lines[i])}}
LiveNames(list) == {list[i].name : i \in {i \in 1..Len(list) : list[i].live}}
Rows(sl) == {<<sl[i].name, _escape(sl[i].value, "")>> : i \in 1..Len(sl)}

\* C9, as the code has it: when a reconnect completes, the names installed
\* and watched on the new connection are those of the live entries of
\* _installs and _watches, every row of _setlocals has been pushed, and a
\* setlocal pushed without a row is one the application called while the
\* connection was down (its row is made when the engine confirms it).
C9_EngineCoversRegistry ==
  [][ReconnectCompletes =>
       /\ NetAsked(NewLines, <<"%","%",">","i","n","s","t","a","l","l">>, <<"%","%",">","u","n","i","n","s","t","a","l","l">>) = LiveNames(installs')
       /\ NetAsked(NewLines, <<"%","%",">","w","a","t","c","h">>, <<"%","%",">","u","n","w","a","t","c","h">>) = LiveNames(watches')
       /\ Rows(setlocals') \subseteq Pushed(NewLines)
       /\ Pushed(NewLines) \ Rows(setlocals')
            \subseteq Pushed(SelectSeq(parked, LAMBDA e : e.tag.k = "app"))]_vars

\* C9, its case: the second connection carries a replayed install, a replayed
\* watch and a setlocal the application called while the connection was down.
C9_ReplayAndParkedSetlocal ==
  \E i, j, k \in 1..Len(wire) :
    /\ wire[i].epoch = 2 /\ wire[j].epoch = 2 /\ wire[k].epoch = 2
    /\ wire[i].tag.k = "app" /\ IsSetlocal(wire[i]) /\ WasParked(i)
    /\ IsReplay(wire[j]) /\ Asked(wire[j])[1] = <<"%","%",">","i","n","s","t","a","l","l">>
    /\ IsReplay(wire[k]) /\ Asked(wire[k])[1] = <<"%","%",">","w","a","t","c","h">>

\* C9, as stated: when a reconnect completes, the installs, the watches and
\* the setlocal pairs of the new connection equal the registry.
C9_EngineEqualsRegistry ==
  [][ReconnectCompletes =>
       /\ NetAsked(NewLines, <<"%","%",">","i","n","s","t","a","l","l">>, <<"%","%",">","u","n","i","n","s","t","a","l","l">>) = LiveNames(installs')
       /\ NetAsked(NewLines, <<"%","%",">","w","a","t","c","h">>, <<"%","%",">","u","n","w","a","t","c","h">>) = LiveNames(watches')
       /\ Pushed(NewLines) = Rows(setlocals')]_vars

\* the promises of dispatch calls with a message
Dispatched == {p \in 1..Len(promises) :
                 promises[p].api = "dispatch" /\ promises[p].state # "rejected"}
Waiting(p) == \E i \in 1..Len(waiters) : waiters[i].fn = "answer" /\ waiters[i].p = p
Answered(p) ==
  /\ promises[p].state = "resolved"
  /\ promises[p].value.t = "object"
  /\ isStr(Get(promises[p].value.v, K_type), <<"a","n","s","w","e","r">>)
  /\ Get(promises[p].value.v, K_id) = Get(promises[p].msg, K_id)
TimedOut(p) ==
  /\ promises[p].state = "resolved"
  /\ promises[p].value = Obj(promises[p].msg)
  /\ Get(promises[p].msg, K_handled) = Bool(FALSE)
  /\ isStr(Get(promises[p].msg, K_type), <<"o","u","t","g","o","i","n","g">>)

\* C10: the resolve function of a dispatch promise is called at most once;
\* while the promise is pending its timeout is armed and its _answer waiter
\* is registered; once resolved, neither is left, and the value is the
\* engine's answer for the id or the original message with handled = false.
C10_DispatchResolvesOnce ==
  \A p \in Dispatched :
    /\ promises[p].calls <= 1
    /\ promises[p].state = "pending" <=> p \in timers
    /\ promises[p].state = "pending" <=> Waiting(p)
    /\ promises[p].state = "pending" <=> promises[p].calls = 0
    /\ promises[p].state # "pending" => Answered(p) \/ TimedOut(p)

\* C10, its case: a dispatch timed out, and the answer for the same id,
\* which arrived later and resolved a second dispatch, did not resolve the
\* first again.
C10_LateAnswerIgnored ==
  \E p, q \in Dispatched :
    /\ p < q
    /\ Get(promises[p].msg, K_id) = Get(promises[q].msg, K_id)
    /\ TimedOut(p) /\ promises[p].calls = 1
    /\ Answered(q)

(***************************************************************************)
(* Properties of the request layer and of the registries                   *)
(***************************************************************************)
\* the listeners still registered for the promise p
WaitersOf(p) == {i \in 1..Len(waiters) : waiters[i].p = p}

\* C11: a request whose deadline has passed is no longer pending and no
\* listener waits for its reply any more.
C11_SettledByDeadline ==
  \A p \in expired : promises[p].state # "pending" /\ WaitersOf(p) = {}

\* the promise p of an install or watch call is resolved with false in this step
RolledBack(p) ==
  /\ promises[p].api \in {"install", "watch"}
  /\ promises[p].state = "pending"
  /\ promises'[p].state = "resolved" /\ ~truthy(promises'[p].value)

\* the listeners of the calls on the registry api that are rolled back in this step
Undone(api) ==
  {i \in 1..Len(waiters) : promises[waiters[i].p].api = api /\ RolledBack(waiters[i].p)}

\* list becomes after by the removal of the slots of the calls rolled back, and
\* what is removed in such a slot is an entry of the name the call was made for
RemovesOwn(list, after, api) ==
  /\ Len(after) = Len(list)
  /\ \A s \in 1..Len(list) :
       IF \E i \in Undone(api) : waiters[i].idx = s
       THEN /\ ~after[s].live
            /\ list[s].live => \E i \in Undone(api) : waiters[i].idx = s /\ waiters[i].name = list[s].name
       ELSE after[s] = list[s]

\* C12: when the engine's reply to an install or watch call says success =
\* false, the call resolves false and the registry loses the entry of this call
\* and nothing else.
C12_RollbackOwnEntry ==
  [][(\E p \in 1..Len(promises) : RolledBack(p)) =>
       /\ \A p \in 1..Len(promises) : RolledBack(p) => promises'[p].value = Bool(FALSE)
       /\ RemovesOwn(installs, installs', "install")
       /\ RemovesOwn(watches, watches', "watch")]_vars

\* the live slots of a registry, the key of an entry, the live slots of a key
Live(list) == {i \in 1..Len(list) : list[i].live}
KeyOf(e) == <<e.name, e.filterName, e.filterValue>>
WithKey(list, k) == {i \in Live(list) : KeyOf(list[i]) = k}
OneEntryPerKey(list) ==
  \A i, j \in Live(list) : KeyOf(list[i]) = KeyOf(list[j]) => i = j

\* the key an install call and a watch call are made for
InstallKey(a) ==
  IF a[3].t # "number" THEN <<a[2].v, strOrUndef(a[3]), strOrUndef(a[4])>>
  ELSE <<a[2].v, strOrUndef(a[4]), strOrUndef(a[5])>>
WatchKey(a) == <<a[2].v, strOrUndef(a[3]), strOrUndef(a[4])>>

\* after the call the key k has the handler h, in the slot the key had if it
\* had one, and in a new entry otherwise
LatestWins(list, after, k, h) ==
  /\ \E i \in WithKey(after, k) : after[i].handler = h
  /\ \A i \in WithKey(list, k) : i \in WithKey(after, k)
  /\ Cardinality(Live(after)) =
       Cardinality(Live(list)) + (IF WithKey(list, k) = {} THEN 1 ELSE 0)

\* the calls of which this step can be one: a call adds a promise
CallsNow ==
  IF Len(promises') = Len(promises) + 1 /\ made < Len(RegistryProgram)
  THEN RegistryProgram[made + 1] ELSE {}

\* C13: neither registry ever holds two live entries with the same name,
\* filter name and filter value; an install or watch call on a key that has an
\* entry puts its handler into that entry, and makes a new entry otherwise.
C13_OneEntryPerKey ==
  [][/\ OneEntryPerKey(installs') /\ OneEntryPerKey(watches')
     /\ \A c \in CallsNow : RegistryStep(c) =>
          /\ c[1] = "install" =>
               LatestWins(installs, installs', InstallKey(c[2]), c[2][1].v)
          /\ c[1] = "watch" =>
               LatestWins(watches, watches', WatchKey(c[2]), c[2][1].v)]_vars

\* C13, its case: the first install of call.route is still waiting for its
\* reply and its entry now has the handler of the later install of the key.
C13_HandlerReplaced ==
  /\ Len(promises) >= 2 /\ promises[2].api = "install" /\ promises[2].state = "pending"
  /\ Len(installs) >= 1 /\ installs[1].live /\ installs[1].handler = "h4"
  /\ KeyOf(installs[1]) = InstallKey(I_route)

\* the lines this step hands to the transport or parks, in the order of the calls
HandedOver ==
  [i \in 1..(Len(wire') - Len(wire)) |-> chomp(wire'[Len(wire) + i].line)]
  \o [i \in 1..(Len(parked') - Len(parked)) |-> chomp(parked'[Len(parked) + i].line)]

\* the priority an install call is made with, and whether a live entry of its
\* name has another one
PriorityOf(a) == IF a[3].t # "number" THEN Num(100) ELSE a[3]
OtherPriority(a) ==
  \E i \in Live(installs) : installs[i].name = a[2].v /\ installs[i].priority # PriorityOf(a)

\* the promise p of an install call is resolved in this step
InstallResolves(p) ==
  /\ promises[p].api = "install" /\ promises[p].state = "pending"
  /\ promises'[p].state = "resolved"

\* this step reads an %%<install reply for name, and v is what it says
InstallReply(name, v) ==
  \E line \in RegistryReplies :
    /\ RegistryReply(line)
    /\ fields(line)[1] = <<"%","%","<","i","n","s","t","a","l","l">> /\ fields(line)[3] = name
    /\ v = Bool(fields(line)[4] = <<"t","r","u","e">>)

\* C14: an install call for a name that has a live entry with another priority
\* hands over %%>uninstall:<name> and then %%>install:<priority>:<name>, these
\* two lines and nothing else; its promise is pending, and a pending install
\* promise is resolved only by an %%<install reply for its name, with the
\* success value of that reply.
C14_ReinstallLines ==
  [][/\ \A c \in CallsNow : c[1] = "install" /\ OtherPriority(c[2]) /\ RegistryStep(c) =>
          /\ HandedOver = << <<"%","%",">","u","n","i","n","s","t","a","l","l",":">> \o c[2][2].v,
                            <<"%","%",">","i","n","s","t","a","l","l",":">> \o digits(PriorityOf(c[2]).v) \o <<":">> \o c[2][2].v >>
          /\ promises'[Len(promises')].state = "pending"
     /\ \A p \in 1..Len(promises) : InstallResolves(p) =>
          \A i \in WaitersOf(p) : InstallReply(waiters[i].name, promises'[p].value)]_vars

\* C14, its case: the install of call.route with priority 50 over an entry of
\* priority 100 has written the two lines one after the other, and the
\* engine's reply has resolved it with true.
C14_ReinstalledAndResolved ==
  /\ Len(promises) >= 4 /\ promises[4].api = "install"
  /\ promises[4].state = "resolved" /\ promises[4].value = Bool(TRUE)
  /\ \E i \in 1..(Len(wire) - 1) :
       /\ chomp(wire[i].line) = <<"%","%",">","u","n","i","n","s","t","a","l","l",":","c","a","l","l",".","r","o","u","t","e">>
       /\ chomp(wire[i + 1].line) = <<"%","%",">","i","n","s","t","a","l","l",":","5","0",":","c","a","l","l",".","r","o","u","t","e">>

\* C15: the live entries of the install registry that share a name carry the
\* same priority.
C15_PriorityPerName ==
  \A i, j \in Live(installs) :
    installs[i].name = installs[j].name => installs[i].priority = installs[j].priority

\* a live entry of the name of the install call exists, and every one of them
\* has the priority of the call
SamePriority(a) ==
  /\ \E i \in Live(installs) : installs[i].name = a[2].v
  /\ ~OtherPriority(a)

\* C16: an install call for a name that has live entries, all of the priority
\* of the call, puts its handler into the entry of its key or into a new
\* entry, leaves every other entry as it was, hands no line over and returns a
\* promise already resolved with true; nothing else changes.
C16_SamePriorityNoLine ==
  [][\A c \in CallsNow : c[1] = "install" /\ SamePriority(c[2]) /\ RegistryStep(c) =>
       /\ LatestWins(installs, installs', InstallKey(c[2]), c[2][1].v)
       /\ \A i \in Live(installs) \ WithKey(installs, InstallKey(c[2])) :
            installs'[i] = installs[i]
       /\ HandedOver = <<>>
       /\ promises' = Append(promises, [api |-> "install", state |-> "resolved",
                                        value |-> Bool(TRUE), calls |-> 1, msg |-> <<>>])
       /\ UNCHANGED <<watches, setlocals, waiters, timers, nops>>]_vars

\* the lines handed over so far that ask for the installation of name
Installing(name) ==
  {i \in 1..Len(wire) : fields(wire[i].line)[1] = <<"%","%",">","i","n","s","t","a","l","l">>
                        /\ fields(wire[i].line)[3] = name}
  \cup {-i : i \in {j \in 1..Len(parked) : fields(parked[j].line)[1] = <<"%","%",">","i","n","s","t","a","l","l">>
                                            /\ fields(parked[j].line)[3] = name}}

\* C16, its case: the first install of call.route still waits for its reply,
\* the second, with a filter and the same priority, is resolved with true and
\* has its entry, and one %%>install line has been handed over.
C16_SecondInstallSilent ==
  /\ Len(promises) >= 3
  /\ promises[2].api = "install" /\ promises[2].state = "pending"
  /\ promises[3].api = "install" /\ promises[3].state = "resolved"
  /\ promises[3].value = Bool(TRUE)
  /\ \E i \in Live(installs) : installs[i].handler = "h2"
  /\ Cardinality(Installing(N_route)) = 1

\* the entry e has the name of the call and every argument the call gives
given(x) == x.t # "undefined"
Matches(e, a) ==
  /\ e.name = a.name.v
  /\ given(a.handler) => e.handler = a.handler.v
  /\ given(a.priority) => e.priority = a.priority
  /\ given(a.filterName) => e.filterName = a.filterName
  /\ given(a.filterValue) => e.filterValue = a.filterValue

\* the call names the message only, and the entry has a filter
NameOnlyKeeps(e, a) ==
  /\ ~given(a.handler) /\ ~given(a.filterName) /\ ~given(a.filterValue)
  /\ given(e.filterName) /\ given(e.filterValue)

\* the uninstall call with the arguments a removes the live entries in gone and
\* no other; with no live entry of the name left it hands over
\* %%>uninstall:<name> and its promise waits for the reply, otherwise it hands
\* nothing over and its promise is resolved with false
UninstallEffect(a, gone) ==
  /\ Len(installs') = Len(installs)
  /\ \A i \in 1..Len(installs) :
       IF i \in gone THEN ~installs'[i].live ELSE installs'[i] = installs[i]
  /\ IF \E i \in Live(installs) \ gone : installs[i].name = a.name.v
     THEN /\ HandedOver = <<>>
          /\ promises'[Len(promises')].state = "resolved"
          /\ promises'[Len(promises')].value = Bool(FALSE)
     ELSE /\ HandedOver = << <<"%","%",">","u","n","i","n","s","t","a","l","l",":">> \o a.name.v >>
          /\ promises'[Len(promises')].state = "pending"
          /\ \E i \in 1..Len(waiters') :
               /\ waiters'[i].p = Len(promises')
               /\ waiters'[i].ev = <<"_uninstall", a.name.v>>

\* the promise p of an uninstall call is resolved in this step
UninstallResolves(p) ==
  /\ promises[p].api = "uninstall" /\ promises[p].state = "pending"
  /\ promises'[p].state = "resolved"

\* this step reads an %%<uninstall reply for name
UninstallReply(name) ==
  \E line \in RegistryReplies :
    /\ RegistryReply(line)
    /\ fields(line)[1] = <<"%","%","<","u","n","i","n","s","t","a","l","l">> /\ fields(line)[3] = name

C18_WaitsForUnwatchReply ==
  \A p \in 1..Len(promises) :
    promises[p].api = "unwatch" /\ promises[p].state = "pending" =>
      \E i \in WaitersOf(p) : waiters[i].ev = <<"_unwatch", waiters[i].name>>

\* the setlocal calls that wait for their reply and have not timed out
Setting == {i \in 1..Len(waiters) : waiters[i].fn = "setlocal"
                                    /\ promises[waiters[i].p].state = "pending"}

\* this step reads an %%<setlocal reply for name that says success
SetlocalConfirmed(name) ==
  \E line \in LocalReplies :
    /\ ReadLine(line, 0)
    /\ fields(line)[2] = name /\ fields(line)[4] = <<"t","r","u","e">>

\* C19: the setlocal registry holds at most one row per name, and it changes
\* only when a successful reply is read for a setlocal call that gave a value
\* and has not timed out: the row of the name then holds that value, and the
\* other rows are as before.  A read, a reply with success = false and a call
\* that timed out leave it as it was.
C19_RowsFollowConfirmedCalls ==
  [][/\ \A i, j \in 1..Len(setlocals') :
          setlocals'[i].name = setlocals'[j].name => i = j
     /\ setlocals' # setlocals =>
          \E i \in Setting :
            /\ given(waiters[i].value)
            /\ SetlocalConfirmed(waiters[i].name)
            /\ setlocals' = assign(setlocals, setlocalRow(setlocals, waiters[i].name),
                                   [name |-> waiters[i].name, value |-> waiters[i].value])]_vars

\* C20: the parked outbound operations never number more than the configured
\* limit.
C20_ParkedWithinLimit == Len(parked) <= queue

(***************************************************************************)
(* Properties of the connection manager after a failure                    *)
(***************************************************************************)
\* C21: once the transport of an instance made with reconnect: false has
\* failed, no operation is parked any more.
C21_NoParkingAfterFailure ==
  [][~reconnect /\ sock = "failed" => Len(parked') <= Len(parked)]_vars

\* C22: after the socket has ended or failed the instance is not connected,
\* the signal _disconnect has been emitted, and the reconnect timer is armed
\* exactly when reconnect is on.
C22_DisconnectSignalled ==
  sock \in {"ended", "failed"} =>
    /\ ~connected
    /\ "_disconnect" \in signals
    /\ reconnect <=> timer = "retry"

(***************************************************************************)
(* Properties of the codec                                                 *)
(***************************************************************************)
S1_text    == <<"a",":","b","%","c","^J","d">>
S1_escaped == <<"a","%","z","b","%","%","c","%","J","d">>

\* C23: unescaping the escaped form of a string gives the string back, the
\* escaped form has no control character and no colon, and the string of
\* scenario S1 is escaped to a%zb%%c%Jd.
C23_EscapeRoundTrip ==
  /\ call.fn = "_escape" =>
       /\ \A i \in 1..Len(call.res) :
            charCodeAt(call.res[i]) >= 32 /\ call.res[i] # ":"
       /\ call.arg = S1_text => call.res = S1_escaped
  /\ call.fn = "_unescape" => call.res = call.of

\* C23, its case: the string of S1, with its colon, percent sign and line
\* feed, has been escaped and unescaped.
C23_S1RoundTrip ==
  /\ call.fn = "_unescape" /\ call.arg = S1_escaped
  /\ call.of = S1_text /\ call.res = S1_text

\* the key/value pairs of a flat map
Pairs(o) == {<<o[i].k, o[i].v>> : i \in 1..Len(o)}

\* C24: flattening (_obj2str, _par2str) the nested map that _str2obj builds
\* from a flat parameter map P with dotted keys yields exactly the key/value
\* pairs of P.
C24_FlattenRoundTrip ==
  call.fn = "_obj2str" => Pairs(call.res) = Pairs(call.of)

(***************************************************************************)
(* Properties of the parser                                                *)
(***************************************************************************)
\* the inbound lines that have a known verb and all its fields
WellFormed == {L_S2, L_S3, L_installOk, L_answer, L_bufsizeOk}

\* C25: parsing an inbound line, a malformed one included, does not throw and
\* yields a record with a defined kind; a line that is not a well-formed
\* line of a known verb yields the kind error with the line as return value.
C25_ParserNeverThrows ==
  call.fn = "_parseMessage" =>
    /\ call.res.ok
    /\ Get(call.res.v, K_type).t = "string"
    /\ call.arg \notin WellFormed =>
         /\ Get(call.res.v, K_type) = Str(<<"e","r","r","o","r">>)
         /\ Get(call.res.v, K_retvalue) = Str(call.arg)

\* the keys of a message that do not begin with "_": its parameters
ParamsOf(m) == {m[i].k : i \in {j \in 1..Len(m) : charAt(m[j].k, 0) # "_"}}

\* the record parsed from the line of scenario S2, but for its return value
S2_Fields(m) ==
  /\ Get(m, K_type) = Str(<<"i","n","c","o","m","i","n","g">>)
  /\ Get(m, K_id) = Str(<<"0","x","1",".","a","b","c">>)
  /\ Get(m, K_time) = Str(<<"1","7","0","0","0","0","0","0","0","0">>)
  /\ Get(m, K_name) = Str(<<"c","a","l","l",".","r","o","u","t","e">>)
  /\ ParamsOf(m) = {<<"c","a","l","l","e","d">>, <<"c","a","l","l","e","r">>}
  /\ Get(m, <<"c","a","l","l","e","d">>) = Str(<<"9","9","9","9">>)
  /\ Get(m, <<"c","a","l","l","e","r">>) = Str(<<"1","2","3">>)

\* C26: parsing the line of scenario S2 yields kind incoming, id 0x1.abc,
\* time 1700000000, name call.route, the parameters called=9999 and
\* caller=123, and the empty return value: the fifth field of the line is
\* empty and the field tone/ring, which has no "=", is dropped.
C26_S2Parsed ==
  call.fn = "_parseMessage" /\ call.arg = L_S2 =>
    /\ call.res.ok
    /\ S2_Fields(call.res.v)
    /\ Get(call.res.v, K_retvalue) = Str(<<>>)

\* C26, its case: the line of scenario S2 has been parsed into a message.
C26_S2Read ==
  /\ call.fn = "_parseMessage" /\ call.arg = L_S2
  /\ call.res.ok /\ Get(call.res.v, <<"c","a","l","l","e","d">>) = Str(<<"9","9","9","9">>)

\* C26 as stated: the record parsed from the line of scenario S2 has the
\* return value tone/ring.
C26_S2ReturnsToneRing ==
  call.fn = "_parseMessage" /\ call.arg = L_S2 =>
    /\ call.res.ok
    /\ S2_Fields(call.res.v)
    /\ Get(call.res.v, K_retvalue) = Str(<<"t","o","n","e","/","r","i","n","g">>)

(***************************************************************************)
(* Properties of getEnvironment                                            *)
(***************************************************************************)
\* the line of the read of engine.<key> has been written to the socket
EnvRead(key) ==
  \E w \in 1..Len(wire) :
    Len(wire[w].line) >= 19 + Len(key)
      /\ SubSeq(wire[w].line, 1, 19 + Len(key)) = <<"%","%",">","s","e","t","l","o","c","a","l",":","e","n","g","i","n","e",".">> \o key

\* C27: once getEnvironment() has been called on a connected instance, a
\* setlocal read of engine.<key> has been written for each of its 14 keys.
C27_EnvironmentReads ==
  (\E p \in 1..Len(promises) : promises[p].api = "getEnvironment") =>
    \A i \in 1..Len(EnvKeys) : EnvRead(EnvKeys[i])

(***************************************************************************)
(* Properties of the channel                                               *)
(***************************************************************************)
\* the live entries of a registry that are filtered on the id of the channel
OfChannel(list) ==
  {i \in 1..Len(list) : list[i].live /\ list[i].filterName = Str(<<"i","d">>)
                          /\ list[i].filterValue = chan.id}

\* a chan.hangup notification for the id of the channel has been received:
\* the watcher w3 of the application, filtered on that id, has been called
HangupReceived ==
  \E i \in 1..Len(invoked) : invoked[i].st = "notified" /\ invoked[i].h = "w3"

\* C28: once a chan.hangup notification for the id of the channel has been
\* received, the channel has ready = false and status = hangup, and neither
\* _installs nor _watches holds a live entry filtered on the id of the channel.
C28_HangupCleansUp ==
  chan.made /\ HangupReceived =>
    /\ ~chan.ready
    /\ chan.status = Str(<<"h","a","n","g","u","p">>)
    /\ OfChannel(installs) = {}
    /\ OfChannel(watches) = {}

\* the calls of callTo on the channel that made a promise with a watcher
PendingCalls == IF chan.made THEN 1..Len(chan.calls) ELSE {}

\* the callTo k holds nothing any more: its watcher of the targetid is not in
\* the registry ws, its timer is cleared and its listener of reset is removed
Released(ch, ws, k) ==
  /\ \A i \in 1..Len(ws) : ws[i].live => ws[i].handler # CallToHandlers[k]
  /\ ~ch.calls[k].timer
  /\ k \notin ch.resets

\* the promise q is resolved with a chan.notify notification of the targetid
ResolvedWithNotify(q, targetid) ==
  /\ q.state = "resolved" /\ q.calls = 1 /\ q.value.t = "object"
  /\ Get(q.value.v, K_type) = Str(<<"n","o","t","i","f","i","c","a","t","i","o","n">>)
  /\ Get(q.value.v, K_name) = Str(<<"c","h","a","n",".","n","o","t","i","f","y">>)
  /\ Get(q.value.v, <<"t","a","r","g","e","t","i","d">>) = Str(targetid)

\* the promise q is resolved with the attach message carrying reason=eof
ResolvedWithEof(q) ==
  /\ q.state = "resolved" /\ q.calls = 1
  /\ q.value = Obj(Put(q.msg, <<"r","e","a","s","o","n">>, Str(<<"e","o","f">>)))

\* C29: a pending callTo resolves with the first chan.notify notification of
\* its targetid that is read, and with the attach message carrying reason=eof
\* when its timer fires first, and in no other step; once resolved, its
\* watcher, its timer and its listener of reset are gone.
C29_CallToResolves ==
  [][\A k \in PendingCalls :
       promises[chan.calls[k].p].state = "pending" =>
         /\ ReadLine(L_notify(chan.calls[k].now), 0) =>
              /\ ResolvedWithNotify(promises'[chan.calls[k].p], chan.calls[k].notify)
              /\ Released(chan', watches', k)
         /\ CallTimer(k) =>
              /\ ResolvedWithEof(promises'[chan.calls[k].p])
              /\ Released(chan', watches', k)
         /\ promises'[chan.calls[k].p].state = "resolved" =>
              ReadLine(L_notify(chan.calls[k].now), 0) \/ CallTimer(k)]_vars

\* C30: a callTo that reset() has rejected is rejected with the value handed
\* to reset, and its watcher of the targetid is out of the watch registry,
\* its timer is cleared and its listener of reset is removed.
C30_ResetCancels ==
  \A k \in PendingCalls :
    promises[chan.calls[k].p].state = "rejected" =>
      /\ promises[chan.calls[k].p].value = Str(<<"c","a","n","c","e","l">>)
      /\ Released(chan, watches, k)

(***************************************************************************)
(* Properties of the call control                                          *)
(***************************************************************************)
\* the step is a call on a channel that is not ready: it returns a promise
\* resolved with false, writes and parks no line and leaves the channel as
\* it is
Refused ==
  /\ Len(promises') = Len(promises) + 1
  /\ promises'[Len(promises')].state = "resolved"
  /\ promises'[Len(promises')].value = Bool(FALSE)
  /\ wire' = wire /\ parked' = parked
  /\ chan' = chan

\* the message the promise q dispatched is the masquerade of the message name
Masqueraded(q, name) ==
  q.api = "dispatch" /\ Get(q.msg, <<"m","e","s","s","a","g","e">>) = Str(name)

\* C31: on a ready channel answered() sets status = answered, and ringing()
\* and progress() set status = ringing unless the status is answered, which
\* stays; on a channel that is not ready the three resolve false, write no
\* line and leave the status unchanged.
C31_StatusOfProgress ==
  [][/\ ChanRinging(<<>>) \/ ChanProgress(<<>>) =>
          IF chan.ready
          THEN /\ chan'.status = IF chan.status = Str(<<"a","n","s","w","e","r","e","d">>)
                                 THEN Str(<<"a","n","s","w","e","r","e","d">>) ELSE Str(<<"r","i","n","g","i","n","g">>)
               /\ Len(wire') + Len(parked') = Len(wire) + Len(parked) + 1
          ELSE Refused
     /\ ChanAnswered(<<>>) =>
          IF chan.ready
          THEN /\ chan'.status = Str(<<"a","n","s","w","e","r","e","d">>)
               /\ Len(wire') + Len(parked') = Len(wire) + Len(parked) + 1
          ELSE Refused]_vars

\* C31, its case: ringing() has been called on a ready channel after
\* answered(), and the status is still answered.
C31_RingingAfterAnswered ==
  /\ chan.made /\ chan.ready /\ chan.status = Str(<<"a","n","s","w","e","r","e","d">>)
  /\ \E p, q \in 1..Len(promises) :
       /\ p < q
       /\ Masqueraded(promises[p], <<"c","a","l","l",".","a","n","s","w","e","r","e","d">>)
       /\ Masqueraded(promises[q], <<"c","a","l","l",".","r","i","n","g","i","n","g">>)

(***************************************************************************)
(* Properties of the inbound router                                        *)
(***************************************************************************)
\* the number of acknowledgement lines written or parked
Acks(w, q) ==
  Cardinality({i \in 1..Len(w) : w[i].tag.k = "ack"})
  + Cardinality({i \in 1..Len(q) : q[i].tag.k = "ack"})

\* the promises that wait for the answer of the message id
Awaiting(id) ==
  {waiters[i].p : i \in {j \in 1..Len(waiters) : waiters[j].ev = <<"_answer", id>>}}

\* C32: reading a %%<message line never writes or parks an acknowledgement
\* and never dispatches it as an incoming message; with a non-empty id it
\* calls no handler and no watcher and settles only the promises waiting
\* for the answer of that id; with an empty id it calls only watchers of the
\* name of the line.
C32_AnswersAndNotifications ==
  [][\A line \in WireReplies :
       ReadLine(line, 0) =>
         /\ Acks(wire', parked') = Acks(wire, parked)
         /\ inbox' = inbox
         /\ IF fields(line)[2] # <<>>
            THEN /\ invoked' = invoked
                 /\ \A p \in 1..Len(promises) :
                      promises'[p] # promises[p] => p \in Awaiting(fields(line)[2])
            ELSE /\ Len(invoked') >= Len(invoked)
                 /\ SubSeq(invoked', 1, Len(invoked)) = invoked
                 /\ \A i \in (Len(invoked) + 1)..Len(invoked') :
                      /\ invoked'[i].st = "notified"
                      /\ watches[invoked'[i].slot].name = fields(line)[4]]_vars

\* C38: reading a %%>message line dispatches it as an incoming message whose
\* kind, id and name are those of the verb and of the first four fields of
\* the line, whatever its parameter tokens say, and the message is
\* acknowledged: at once when no handler is called, and otherwise when the
\* promises of its handlers have all resolved.
C38_IncomingWhateverItsTokens ==
  [][/\ \A line \in WireIncoming :
          ReadLine(line, 0) =>
            /\ Len(inbox') = Len(inbox) + 1
            /\ Get(inbox'[Len(inbox')].msg, K_type) = Str(<<"i","n","c","o","m","i","n","g">>)
            /\ Get(inbox'[Len(inbox')].msg, K_id) = Str(fields(line)[2])
            /\ Get(inbox'[Len(inbox')].msg, K_name) = Str(fields(line)[4])
            /\ Len(invoked') = Len(invoked) => Acks(wire', parked') = Acks(wire, parked) + 1
     /\ \A m \in 1..Len(inbox') :
          inbox'[m].all = "fulfilled" =>
            \E i \in 1..Len(wire') :
              /\ wire'[i].tag.k = "ack" /\ wire'[i].tag.m = m
              /\ fields(wire'[i].line)[2] = fields(inbox'[m].raw)[2]]_vars

\* the place of a status on the way incoming, ringing, answered,
\* dropped | hangup; 0 for any other value
Rank(status) ==
  CASE status = Str(<<"i","n","c","o","m","i","n","g">>) -> 1
    [] status = Str(<<"r","i","n","g","i","n","g">>)  -> 2
    [] status = Str(<<"a","n","s","w","e","r","e","d">>) -> 3
    [] status = Str(<<"d","r","o","p","p","e","d">>)  -> 4
    [] status = Str(<<"h","a","n","g","u","p">>)   -> 4
    [] OTHER                     -> 0

\* C33: the status of a channel is one of the five states and only moves
\* forward: once it is dropped or hangup, no operation on the channel makes
\* it incoming, ringing or answered again.
C33_StatusMovesForward ==
  [][chan.made =>
       /\ Rank(chan'.status) > 0
       /\ Rank(chan'.status) >= Rank(chan.status)]_vars

\* the delay of the tone callTo that dispatched the message attach:
\* params.timeout when it is a positive number, else 250 ms for each digit of
\* tone/dtmfstr/<digits>, else 250 ms
ToneDelay(attach) ==
  IF Get(attach, <<"t","i","m","e","o","u","t">>).t = "number" /\ Get(attach, <<"t","i","m","e","o","u","t">>).v > 0
  THEN Get(attach, <<"t","i","m","e","o","u","t">>).v
  ELSE IF startsWith(Get(attach, <<"o","v","e","r","r","i","d","e">>).v, <<"t","o","n","e","/","d","t","m","f","s","t","r","/">>)
  THEN 250 * (Len(Get(attach, <<"o","v","e","r","r","i","d","e">>).v) - Len(<<"t","o","n","e","/","d","t","m","f","s","t","r","/">>))
  ELSE 250

\* C34: the timer a callTo for a tone/dtmf target starts when its dispatch
\* is answered runs for params.timeout when that is a positive number, and
\* otherwise for 250 ms (tone/dtmf/...) or 250 ms times the number of digits
\* (tone/dtmfstr/<digits>).
C34_ToneDelay ==
  \A k \in PendingCalls :
    chan.calls[k].tone => chan.calls[k].delay = ToneDelay(promises[chan.calls[k].p].msg)

(***************************************************************************)
(* Properties of concurrent requests                                       *)
(***************************************************************************)
\* the promise q of install is resolved with true
InstalledTrue(q) ==
  q.api = "install" /\ q.state = "resolved" /\ q.value = Bool(TRUE)

\* the engine has confirmed an install that has not been uninstalled since:
\* an install promise is resolved true and no later uninstall is
Confirmed ==
  \E q \in 1..Len(promises) :
    /\ InstalledTrue(promises[q])
    /\ \A u \in (q + 1)..Len(promises) :
         ~(promises[u].api = "uninstall" /\ promises[u].state = "resolved"
             /\ promises[u].value = Bool(TRUE))

\* C35: a promise of install becomes resolved true only in the step that
\* reads the engine's %%<install:...:true, or when the engine has confirmed
\* an install of the name before (the installs of call.execute never resolve
\* in these runs: the engine's replies are all for call.route).
C35_InstallTrueIsConfirmed ==
  [][\A p \in 1..Len(promises') :
       /\ InstalledTrue(promises'[p])
       /\ p > Len(promises) \/ ~InstalledTrue(promises[p])
       => ReadLine(L_installOk, 0) \/ Confirmed]_vars

\* the listeners of the event ev whose request is still pending, and the
\* oldest of them
PendingOn(ev) ==
  {i \in 1..Len(waiters) : waiters[i].ev = ev /\ promises[waiters[i].p].state = "pending"}
Oldest(ev) == CHOOSE i \in PendingOn(ev) : \A j \in PendingOn(ev) : i <= j

\* C36: an engine reply %%<setlocal:<name>:... settles only the oldest
\* pending setlocal request of that name, and a row it writes to _setlocals
\* does not hold the value of another pending request (the late reply to a
\* request that has timed out may still record the value of that request).
C36_ReplyResolvesOldest ==
  [][\A line \in LocalReplies :
       ReadLine(line, 0) =>
         /\ \A p \in 1..Len(promises) :
              promises'[p].state # promises[p].state =>
                p = waiters[Oldest(<<"_setlocal", fields(line)[2]>>)].p
         /\ \A r \in 1..Len(setlocals') :
              r > Len(setlocals) \/ setlocals'[r] # setlocals[r] =>
                \E i \in 1..Len(waiters) :
                  /\ waiters[i].ev = <<"_setlocal", fields(line)[2]>>
                  /\ waiters[i].value = setlocals'[r].value
                  /\ i \in PendingOn(waiters[i].ev) => i = Oldest(waiters[i].ev)]_vars

\* C37: no correlation listener outlives its operation: every listener on an
\* _install, _uninstall, _watch, _unwatch, _setlocal or _answer event
\* belongs to a promise that is still pending.
C37_NoListenerLeft ==
  \A i \in 1..Len(waiters) : promises[waiters[i].p].state = "pending"

(***************************************************************************)
(* Properties of the outbound lines                                        *)
(***************************************************************************)
\* the number of places the line of the operation o is in: parked for the next
\* connect, or handed to the transport
Copies(o) ==
  Cardinality({i \in 1..Len(parked) : parked[i].op = o})
  + Cardinality({i \in 1..Len(wire) : wire[i].op = o})

\* C39: no outbound line is lost or duplicated: every line handed to _write is
\* at every later moment either still parked for the next connect or written to
\* the transport exactly once, also when the write to the transport throws
C39_NoLineLostOrDuplicated == \A o \in 1..nops : Copies(o) = 1

\* the socket ends or fails while the timer of its connect handler is armed
EndsUnsettled == timer = "ready" /\ sock = "open" /\ sock' \in {"ended", "failed"}

\* C40: the connection is marked connected only by the timer the connect handler
\* arms; when the socket ends or fails before that timer fires the timer is
\* cancelled, the connected flag stays false, nothing is written (no %%>connect
\* line on that socket), no parked listener runs and every parked line stays
\* parked; the timer is never armed for a socket that is not open
C40_SettleTimer ==
  [][/\ (connected' /\ ~connected => timer = "ready" /\ sock = "open")
     /\ (EndsUnsettled => /\ timer' # "ready"
                          /\ ~connected /\ ~connected'
                          /\ wire' = wire
                          /\ parked' = parked
                          /\ epoch' = epoch)
     /\ (timer' = "ready" => sock' = "open")]_vars

\* C40 witness: the first socket has ended before its timer fired: no connection
\* was made ready, nothing was written and the lines are still parked
C40_EndedUnsettled ==
  /\ sock = "ended" /\ epoch = 0 /\ timer # "ready" /\ ~connected
  /\ wire = <<>> /\ parked # <<>>
====
